---- MODULE Spec2Model ----
(***************************************************************************)
(* A model of the AI news aggregator: the ledger (db.py), the source      *)
(* adapters (utils.py), the scorer (scoring.py) and the collector,        *)
(* formatter, publisher and run orchestration (main.py).                  *)
(*                                                                         *)
(* Python strings are modelled run-length encoded: a text is a sequence   *)
(* of runs <<c, n>> (n >= 1 copies of the character c), adjacent runs     *)
(* holding different characters, so that equal strings are equal values   *)
(* and a title of several thousand characters is a small value.  A        *)
(* character is a one-character string; a code point outside ASCII is     *)
(* written "U+XXXX".                                                       *)
(***************************************************************************)
EXTENDS Integers, Sequences, FiniteSets, TLC

----------------------------------------------------------------------------
(* Loops over the elements of a sequence, written by halving the range,    *)
(* which keeps the evaluation shallow.                                       *)

\* F(s[lo]) \o ... \o F(s[hi])
RECURSIVE FlatMap(_, _, _, _)
FlatMap(F(_), s, lo, hi) ==
    IF lo > hi THEN <<>>
    ELSE IF lo = hi THEN F(s[lo])
    ELSE LET mid == (lo + hi) \div 2
         IN  FlatMap(F, s, lo, mid) \o FlatMap(F, s, mid + 1, hi)

\* F(s[lo]) + ... + F(s[hi])
RECURSIVE SumMap(_, _, _, _)
SumMap(F(_), s, lo, hi) ==
    IF lo > hi THEN 0
    ELSE IF lo = hi THEN F(s[lo])
    ELSE LET mid == (lo + hi) \div 2
         IN  SumMap(F, s, lo, mid) + SumMap(F, s, mid + 1, hi)

\* acc after "for x in s[lo..hi]: acc = F(acc, x)"; the first half of the
\* range is folded to a value before the second half starts from it
RECURSIVE FoldLeft(_, _, _, _, _)
FoldLeft(F(_, _), acc, s, lo, hi) ==
    IF lo > hi THEN acc
    ELSE IF lo = hi THEN F(acc, s[lo])
    ELSE LET mid == (lo + hi) \div 2
             left == FoldLeft(F, acc, s, lo, mid)
         IN  [v \in {left} |-> FoldLeft(F, v, s, mid + 1, hi)][left]

----------------------------------------------------------------------------
(* Python str operations *)

\* c * n
Run(c, n) == IF n <= 0 THEN <<>> ELSE << <<c, n>> >>

\* a + b
Cat(a, b) ==
    IF a = <<>> THEN b
    ELSE IF b = <<>> THEN a
    ELSE IF a[Len(a)][1] = b[1][1]
         THEN SubSeq(a, 1, Len(a) - 1)
                \o << <<b[1][1], a[Len(a)][2] + b[1][2]>> >>
                \o Tail(b)
         ELSE a \o b

\* F(s[lo]) + ... + F(s[hi]), for texts
RECURSIVE CatMap(_, _, _, _)
CatMap(F(_), s, lo, hi) ==
    IF lo > hi THEN <<>>
    ELSE IF lo = hi THEN F(s[lo])
    ELSE LET mid == (lo + hi) \div 2
         IN  Cat(CatMap(F, s, lo, mid), CatMap(F, s, mid + 1, hi))

\* the str whose characters are the tuple t
Str(t) == CatMap(LAMBDA c : Run(c, 1), t, 1, Len(t))

\* the f-string / concatenation of the texts of the tuple ts
CatAll(ts) == CatMap(LAMBDA x : x, ts, 1, Len(ts))

\* len(s)
StrLen(s) == SumMap(LAMBDA r : r[2], s, 1, Len(s))

\* sep.join(ts)
Join(sep, ts) ==
    IF ts = <<>> THEN <<>>
    ELSE Cat(ts[1], CatMap(LAMBDA x : Cat(sep, x), ts, 2, Len(ts)))

\* s[:n]
Slice(s, n) ==
    IF n <= 0 THEN <<>>
    ELSE IF StrLen(s) <= n THEN s
    ELSE LET j == CHOOSE h \in 0..(Len(s) - 1) :
                     /\ StrLen(SubSeq(s, 1, h)) <= n
                     /\ StrLen(SubSeq(s, 1, h + 1)) > n
         IN  SubSeq(s, 1, j) \o Run(s[j + 1][1], n - StrLen(SubSeq(s, 1, j)))

Upper == <<"A", "B", "C", "D", "E", "F", "G", "H", "I", "J", "K", "L", "M",
           "N", "O", "P", "Q", "R", "S", "T", "U", "V", "W", "X", "Y", "Z">>
Lowercase == <<"a", "b", "c", "d", "e", "f", "g", "h", "i", "j", "k", "l", "m",
               "n", "o", "p", "q", "r", "s", "t", "u", "v", "w", "x", "y", "z">>

LowerChar(c) ==
    IF \E k \in 1..Len(Upper) : Upper[k] = c
    THEN Lowercase[CHOOSE k \in 1..Len(Upper) : Upper[k] = c]
    ELSE c

\* s.lower()
Lower(s) == CatMap(LAMBDA r : Run(LowerChar(r[1]), r[2]), s, 1, Len(s))

\* the characters of s as a tuple, every run cut to at most cap characters
Expand(s, cap) ==
    FlatMap(LAMBDA r : [k \in 1..(IF r[2] > cap THEN cap ELSE r[2]) |-> r[1]],
            s, 1, Len(s))

\* whether the tuple of characters k occurs in the tuple of characters e
Occurs(k, e) ==
    \E p \in 1..(Len(e) - Len(k) + 1) :
       e[p] = k[1] /\ SubSeq(e, p, p + Len(k) - 1) = k

\* k in s, for a non-empty tuple of characters k.  A window of Len(k)
\* characters meets at most Len(k) characters of a run, so runs longer than
\* that are cut before the scan.
Contains(k, s) == Occurs(k, Expand(s, Len(k)))

Whitespace == {" ", "\n", "\t", "\r", "\f"}

\* s.strip()
Strip(s) ==
    IF \A j \in 1..Len(s) : s[j][1] \in Whitespace THEN <<>>
    ELSE SubSeq(s,
                CHOOSE j \in 1..Len(s) :
                   /\ s[j][1] \notin Whitespace
                   /\ \A h \in 1..(j - 1) : s[h][1] \in Whitespace,
                CHOOSE j \in 1..Len(s) :
                   /\ s[j][1] \notin Whitespace
                   /\ \A h \in (j + 1)..Len(s) : s[h][1] \in Whitespace)

\* html.escape(c) for one character (quote=True)
EscapeChar(c) ==
    CASE c = "&"  -> <<<<"&", 1>>, <<"a", 1>>, <<"m", 1>>, <<"p", 1>>,
                       <<";", 1>>>>
      [] c = "<"  -> <<<<"&", 1>>, <<"l", 1>>, <<"t", 1>>, <<";", 1>>>>
      [] c = ">"  -> <<<<"&", 1>>, <<"g", 1>>, <<"t", 1>>, <<";", 1>>>>
      [] c = "\"" -> <<<<"&", 1>>, <<"q", 1>>, <<"u", 1>>, <<"o", 1>>,
                       <<"t", 1>>, <<";", 1>>>>
      [] c = "'"  -> <<<<"&", 1>>, <<"#", 1>>, <<"x", 1>>, <<"2", 1>>,
                       <<"7", 1>>, <<";", 1>>>>
      [] OTHER    -> Run(c, 1)

\* s * n
RECURSIVE Times(_, _)
Times(s, n) ==
    IF n <= 0 THEN <<>>
    ELSE IF n = 1 THEN s
    ELSE Cat(Times(s, n \div 2), Times(s, n - n \div 2))

\* html.escape(s)
Escape(s) ==
    CatMap(LAMBDA r : IF r[1] \in {"&", "<", ">", "\"", "'"}
                      THEN Times(EscapeChar(r[1]), r[2])
                      ELSE <<r>>,
           s, 1, Len(s))

\* s.split(": ", 1)[-1] if ": " in s else s: what follows the first ':' that
\* a ' ' follows
AfterColonSpace(s) ==
    IF \A j \in 1..(Len(s) - 1) : ~(s[j][1] = ":" /\ s[j + 1][1] = " ")
    THEN s
    ELSE LET j == CHOOSE h \in 1..(Len(s) - 1) :
                     /\ s[h][1] = ":" /\ s[h + 1][1] = " "
                     /\ \A g \in 1..(h - 1) :
                           ~(s[g][1] = ":" /\ s[g + 1][1] = " ")
         IN  Cat(Run(" ", s[j + 1][2] - 1), SubSeq(s, j + 2, Len(s)))

----------------------------------------------------------------------------
(* scoring.py *)

\* KEYWORDS: keyword -> weight, in the order of the dictionary
KEYWORDS ==
   <<
      <<<<"g", "p", "t">>, 5>>,
      <<<<"g", "p", "t", "-", "4">>, 5>>,
      <<<<"g", "p", "t", "-", "5">>, 5>>,
      <<<<"c", "h", "a", "t", "g", "p", "t">>, 5>>,
      <<<<"c", "l", "a", "u", "d", "e">>, 5>>,
      <<<<"g", "e", "m", "i", "n", "i">>, 5>>,
      <<<<"l", "l", "a", "m", "a">>, 5>>,
      <<<<"m", "i", "s", "t", "r", "a", "l">>, 5>>,
      <<<<"s", "o", "r", "a">>, 5>>,
      <<<<"v", "e", "o">>, 5>>,
      <<<<"d", "e", "e", "p", "s", "e", "e", "k">>, 5>>,
      <<<<"p", "h", "i">>, 4>>,
      <<<<"q", "w", "e", "n">>, 4>>,
      <<<<"g", "e", "m", "m", "a">>, 4>>,
      <<<<"s", "t", "a", "b", "l", "e", " ", "d", "i", "f", "f", "u", "s", "i", "o", "n">>, 5>>,
      <<<<"m", "i", "d", "j", "o", "u", "r", "n", "e", "y">>, 5>>,
      <<<<"w", "h", "i", "s", "p", "e", "r">>, 4>>,
      <<<<"c", "o", "p", "i", "l", "o", "t">>, 4>>,
      <<<<"d", "a", "l", "l", "-", "e">>, 5>>,
      <<<<"f", "l", "u", "x">>, 4>>,
      <<<<"i", "d", "e", "o", "g", "r", "a", "m">>, 4>>,
      <<<<"v", "i", "d", "e", "o", " ", "m", "o", "d", "e", "l">>, 5>>,
      <<<<"t", "e", "x", "t", "-", "t", "o", "-", "v", "i", "d", "e", "o">>, 5>>,
      <<<<"v", "i", "d", "e", "o", " ", "g", "e", "n", "e", "r", "a", "t", "i", "o", "n">>, 5>>,
      <<<<"t", "e", "x", "t", "-", "t", "o", "-", "i", "m", "a", "g", "e">>, 4>>,
      <<<<"i", "m", "a", "g", "e", " ", "g", "e", "n", "e", "r", "a", "t", "i", "o", "n">>, 4>>,
      <<<<"i", "m", "a", "g", "e", " ", "m", "o", "d", "e", "l">>, 4>>,
      <<<<"r", "e", "l", "e", "a", "s", "e">>, 4>>,
      <<<<"r", "e", "l", "e", "a", "s", "e", "d">>, 4>>,
      <<<<"l", "a", "u", "n", "c", "h">>, 4>>,
      <<<<"l", "a", "u", "n", "c", "h", "e", "s">>, 4>>,
      <<<<"a", "n", "n", "o", "u", "n", "c", "e">>, 4>>,
      <<<<"a", "n", "n", "o", "u", "n", "c", "i", "n", "g">>, 4>>,
      <<<<"i", "n", "t", "r", "o", "d", "u", "c", "i", "n", "g">>, 4>>,
      <<<<"o", "p", "e", "n", "-", "s", "o", "u", "r", "c", "e">>, 4>>,
      <<<<"o", "p", "e", "n", " ", "s", "o", "u", "r", "c", "e">>, 4>>,
      <<<<"b", "r", "e", "a", "k", "t", "h", "r", "o", "u", "g", "h">>, 4>>,
      <<<<"s", "t", "a", "t", "e", "-", "o", "f", "-", "t", "h", "e", "-", "a", "r", "t">>, 4>>,
      <<<<"s", "o", "t", "a">>, 4>>,
      <<<<"n", "e", "w", " ", "m", "o", "d", "e", "l">>, 5>>,
      <<<<"b", "e", "n", "c", "h", "m", "a", "r", "k">>, 3>>,
      <<<<"m", "u", "l", "t", "i", "m", "o", "d", "a", "l">>, 4>>,
      <<<<"a", "g", "e", "n", "t">>, 3>>,
      <<<<"a", "g", "e", "n", "t", "s">>, 3>>,
      <<<<"r", "e", "a", "s", "o", "n", "i", "n", "g">>, 3>>,
      <<<<"f", "i", "n", "e", "-", "t", "u", "n", "e">>, 3>>,
      <<<<"f", "i", "n", "e", "-", "t", "u", "n", "i", "n", "g">>, 3>>,
      <<<<"t", "r", "a", "i", "n", "i", "n", "g">>, 3>>,
      <<<<"t", "r", "a", "n", "s", "f", "o", "r", "m", "e", "r">>, 3>>,
      <<<<"d", "i", "f", "f", "u", "s", "i", "o", "n">>, 3>>,
      <<<<"r", "o", "b", "o", "t", "i", "c", "s">>, 3>>,
      <<<<"s", "e", "l", "f", "-", "d", "r", "i", "v", "i", "n", "g">>, 3>>,
      <<<<"a", "u", "t", "o", "n", "o", "m", "o", "u", "s">>, 3>>,
      <<<<"h", "u", "g", "g", "i", "n", "g", " ", "f", "a", "c", "e">>, 3>>,
      <<<<"o", "p", "e", "n", "a", "i">>, 4>>,
      <<<<"a", "n", "t", "h", "r", "o", "p", "i", "c">>, 4>>,
      <<<<"d", "e", "e", "p", "m", "i", "n", "d">>, 4>>,
      <<<<"g", "o", "o", "g", "l", "e", " ", "a", "i">>, 3>>,
      <<<<"m", "e", "t", "a", " ", "a", "i">>, 3>>,
      <<<<"m", "i", "c", "r", "o", "s", "o", "f", "t", " ", "a", "i">>, 3>>,
      <<<<"n", "v", "i", "d", "i", "a">>, 3>>,
      <<<<"t", "r", "e", "n", "d", "i", "n", "g">>, 2>>,
      <<<<"f", "r", "a", "m", "e", "w", "o", "r", "k">>, 2>>,
      <<<<"l", "i", "b", "r", "a", "r", "y">>, 2>>,
      <<<<"a", "p", "i">>, 2>>,
      <<<<"s", "d", "k">>, 2>>,
      <<<<"d", "a", "t", "a", "s", "e", "t">>, 2>>,
      <<<<"t", "o", "o", "l">>, 2>>
   >>

MIN_SCORE == 3

MAX_ITEMS == 30

\* score_item(title, summary)
\* the length of the longest keyword: a bound on the characters of a run
\* that "keyword in text" can meet
KeywordMaxLen ==
    CHOOSE n \in {Len(KEYWORDS[k][1]) : k \in 1..Len(KEYWORDS)} :
       \A k \in 1..Len(KEYWORDS) : Len(KEYWORDS[k][1]) <= n

score_item(title, summary) ==
    LET text == Lower(CatAll(<<title, <<<<" ", 1>>>>, summary>>))
        chars == Expand(text, KeywordMaxLen)
        matched == {k \in 1..Len(KEYWORDS) : Occurs(KEYWORDS[k][1], chars)}
    IN  \* the sum of the matched weights, counted as (keyword, unit) pairs
        Cardinality(UNION {{<<k, u>> : u \in 1..KEYWORDS[k][2]} : k \in matched})

\* list[:n]
PySlice(s, n) ==
    IF n >= 0 THEN SubSeq(s, 1, IF n < Len(s) THEN n ELSE Len(s))
    ELSE SubSeq(s, 1, IF Len(s) + n > 0 THEN Len(s) + n ELSE 0)

\* the scoring loop of filter_and_rank: the items with their score appended,
\* those below min_score dropped
ScoreAndFilter(news_items, min_score) ==
    FlatMap(LAMBDA it :
              LET item_score == score_item(it[1], it[3])
              IN  IF item_score >= min_score
                  THEN << <<it[1], it[2], it[3], it[4], item_score>> >>
                  ELSE <<>>,
            news_items, 1, Len(news_items))

\* a sort that leaves the items in their order: filter_and_rank without
\* its sort, against which the ranking property is tried
InsertAtEnd(sorted, x) == Append(sorted, x)

\* list.sort(key=lambda x: x[4], reverse=True): a stable sort, so an item goes
\* behind every item already placed whose score is at least its own
InsertByScore(sorted, x) ==
    LET ahead == {j \in 1..Len(sorted) : sorted[j][5] >= x[5]}
        p == IF ahead = {} THEN 0 ELSE CHOOSE j \in ahead : \A h \in ahead : h <= j
    IN  SubSeq(sorted, 1, p) \o <<x>> \o SubSeq(sorted, p + 1, Len(sorted))

SortByScoreDesc(s) == FoldLeft(InsertByScore, <<>>, s, 1, Len(s))

\* filter_and_rank(news_items, min_score, max_items)
filter_and_rank(news_items, min_score, max_items) ==
    PySlice(SortByScoreDesc(ScoreAndFilter(news_items, min_score)), max_items)

----------------------------------------------------------------------------
(* utils.py *)

\* emoji_map of get_source_emoji: source name -> emoji, as written in the file
emoji_map ==
   <<
      <<<<<<"H", 1>>, <<"u", 1>>, <<"g", 2>>, <<"i", 1>>, <<"n", 1>>,
          <<"g", 1>>, <<" ", 1>>, <<"F", 1>>, <<"a", 1>>, <<"c", 1>>,
          <<"e", 1>>, <<" ", 1>>, <<"B", 1>>, <<"l", 1>>, <<"o", 1>>,
          <<"g", 1>>>>,
        <<<<"U+00F0", 1>>, <<"U+0178", 1>>, <<"U+00A4", 1>>, <<"U+2014", 1>>>>>>,
      <<<<<<"H", 1>>, <<"u", 1>>, <<"g", 2>>, <<"i", 1>>, <<"n", 1>>,
          <<"g", 1>>, <<" ", 1>>, <<"F", 1>>, <<"a", 1>>, <<"c", 1>>,
          <<"e", 1>>, <<" ", 1>>, <<"P", 1>>, <<"a", 1>>, <<"p", 1>>,
          <<"e", 1>>, <<"r", 1>>>>,
        <<<<"U+00F0", 1>>, <<"U+0178", 1>>, <<"U+201C", 1>>>>>>,
      <<<<<<"M", 1>>, <<"L", 1>>, <<" ", 1>>, <<"R", 1>>, <<"e", 1>>,
          <<"d", 2>>, <<"i", 1>>, <<"t", 1>>>>,
        <<<<"U+00F0", 1>>, <<"U+0178", 1>>, <<"U+00A4", 1>>, <<"U+2013", 1>>>>>>,
      <<<<<<"O", 1>>, <<"p", 1>>, <<"e", 1>>, <<"n", 1>>, <<"A", 1>>,
          <<"I", 1>>, <<" ", 1>>, <<"B", 1>>, <<"l", 1>>, <<"o", 1>>,
          <<"g", 1>>>>,
        <<<<"U+00E2", 1>>, <<"U+0153", 1>>, <<"U+00A8", 1>>>>>>,
      <<<<<<"T", 1>>, <<"h", 1>>, <<"e", 1>>, <<" ", 1>>, <<"G", 1>>,
          <<"r", 1>>, <<"a", 1>>, <<"d", 1>>, <<"i", 1>>, <<"e", 1>>,
          <<"n", 1>>, <<"t", 1>>>>,
        <<<<"U+00F0", 1>>, <<"U+0178", 1>>, <<"U+201C", 1>>, <<"U+0153", 1>>>>>>,
      <<<<<<"J", 1>>, <<"a", 1>>, <<"y", 1>>, <<" ", 1>>, <<"A", 1>>,
          <<"l", 1>>, <<"a", 1>>, <<"m", 2>>, <<"a", 1>>, <<"r", 1>>>>,
        <<<<"U+00F0", 1>>, <<"U+0178", 1>>, <<"U+2019", 1>>, <<"U+00A1", 1>>>>>>,
      <<<<<<"D", 1>>, <<"e", 2>>, <<"p", 1>>, <<"M", 1>>, <<"i", 1>>,
          <<"n", 1>>, <<"d", 1>>, <<" ", 1>>, <<"B", 1>>, <<"l", 1>>,
          <<"o", 1>>, <<"g", 1>>>>,
        <<<<"U+00F0", 1>>, <<"U+0178", 1>>, <<"U+201D", 1>>, <<"U+00AC", 1>>>>>>,
      <<<<<<"A", 1>>, <<"I", 1>>, <<" ", 1>>, <<"F", 1>>, <<"r", 1>>,
          <<"o", 1>>, <<"m", 1>>, <<" ", 1>>, <<"M", 1>>, <<"I", 1>>,
          <<"T", 1>>, <<" ", 1>>, <<"N", 1>>, <<"e", 1>>, <<"w", 1>>,
          <<"s", 1>>>>,
        <<<<"U+00F0", 1>>, <<"U+0178", 1>>, <<"U+017D", 1>>, <<"U+201C", 1>>>>>>,
      <<<<<<"G", 1>>, <<"e", 1>>, <<"n", 1>>, <<"e", 1>>, <<"r", 1>>,
          <<"a", 1>>, <<"l", 1>>, <<" ", 1>>, <<"N", 1>>, <<"e", 1>>,
          <<"w", 1>>, <<"s", 1>>, <<" ", 1>>, <<"F", 1>>, <<"r", 1>>,
          <<"o", 1>>, <<"m", 1>>, <<" ", 1>>, <<"M", 1>>, <<"I", 1>>,
          <<"T", 1>>, <<" ", 1>>, <<"N", 1>>, <<"e", 1>>, <<"w", 1>>,
          <<"s", 1>>>>,
        <<<<"U+00F0", 1>>, <<"U+0178", 1>>, <<"U+203A", 1>>, <<"U+00EF", 1>>,
          <<"U+00B8", 1>>>>>>,
      <<<<<<"M", 1>>, <<"i", 1>>, <<"c", 1>>, <<"r", 1>>, <<"o", 1>>,
          <<"s", 1>>, <<"o", 1>>, <<"f", 1>>, <<"t", 1>>, <<" ", 1>>,
          <<"A", 1>>, <<"I", 1>>, <<" ", 1>>, <<"B", 1>>, <<"l", 1>>,
          <<"o", 1>>, <<"g", 1>>>>,
        <<<<"U+00F0", 1>>, <<"U+0178", 1>>, <<"U+2019", 1>>, <<"U+00BB", 1>>>>>>,
      <<<<<<"m", 1>>, <<"a", 1>>, <<"c", 1>>, <<"h", 1>>, <<"i", 1>>,
          <<"n", 1>>, <<"e", 1>>, <<"l", 1>>, <<"e", 1>>, <<"a", 1>>,
          <<"r", 1>>, <<"n", 1>>, <<"i", 1>>, <<"n", 1>>, <<"g", 1>>,
          <<"m", 1>>, <<"a", 1>>, <<"s", 1>>, <<"t", 1>>, <<"e", 1>>,
          <<"r", 1>>, <<"y", 1>>, <<" ", 1>>, <<"B", 1>>, <<"l", 1>>,
          <<"o", 1>>, <<"g", 1>>>>,
        <<<<"U+00F0", 1>>, <<"U+0178", 1>>, <<"U+2018", 1>>, <<"U+00A8", 1>>,
          <<"U+00E2", 1>>, <<"U+20AC", 1>>, <<"U+00F0", 1>>, <<"U+0178", 1>>,
          <<"U+00AB", 1>>>>>>,
      <<<<<<"N", 1>>, <<"v", 1>>, <<"i", 1>>, <<"d", 1>>, <<"i", 1>>,
          <<"a", 1>>, <<" ", 1>>, <<"A", 1>>, <<"I", 1>>, <<" ", 1>>,
          <<"B", 1>>, <<"l", 1>>, <<"o", 1>>, <<"g", 1>>>>,
        <<<<"U+00F0", 1>>, <<"U+0178", 1>>, <<"U+0161", 1>>, <<"U+20AC", 1>>>>>>,
      <<<<<<"T", 1>>, <<"o", 1>>, <<"w", 1>>, <<"a", 1>>, <<"r", 1>>,
          <<"d", 1>>, <<"s", 1>>, <<" ", 1>>, <<"D", 1>>, <<"a", 1>>,
          <<"t", 1>>, <<"a", 1>>, <<" ", 1>>, <<"S", 1>>, <<"c", 1>>,
          <<"i", 1>>, <<"e", 1>>, <<"n", 1>>, <<"c", 1>>, <<"e", 1>>>>,
        <<<<"U+00F0", 1>>, <<"U+0178", 1>>, <<"U+201C", 1>>, <<"U+0160", 1>>>>>>,
      <<<<<<"H", 1>>, <<"a", 1>>, <<"c", 1>>, <<"k", 1>>, <<"e", 1>>,
          <<"r", 1>>, <<" ", 1>>, <<"N", 1>>, <<"e", 1>>, <<"w", 1>>,
          <<"s", 1>>>>,
        <<<<"U+00F0", 1>>, <<"U+0178", 1>>, <<"U+00A7", 1>>, <<"U+2018", 1>>,
          <<"U+00E2", 1>>, <<"U+20AC", 1>>, <<"U+00F0", 1>>, <<"U+0178", 1>>,
          <<"U+2019", 1>>, <<"U+00BB", 1>>>>>>,
      <<<<<<"T", 1>>, <<"h", 1>>, <<"e", 1>>, <<" ", 1>>, <<"V", 1>>,
          <<"e", 1>>, <<"r", 1>>, <<"g", 1>>, <<"e", 1>>>>,
        <<<<"U+00F0", 1>>, <<"U+0178", 2>>, <<"U+00A3", 1>>>>>>,
      <<<<<<"G", 1>>, <<"i", 1>>, <<"t", 1>>, <<"H", 1>>, <<"u", 1>>,
          <<"b", 1>>, <<" ", 1>>, <<"T", 1>>, <<"r", 1>>, <<"e", 1>>,
          <<"n", 1>>, <<"d", 1>>, <<"i", 1>>, <<"n", 1>>, <<"g", 1>>,
          <<" ", 1>>, <<"(", 1>>, <<"p", 1>>, <<"y", 1>>, <<"t", 1>>,
          <<"h", 1>>, <<"o", 1>>, <<"n", 1>>, <<")", 1>>>>,
        <<<<"U+00F0", 1>>, <<"U+0178", 1>>>>>>,
      <<<<<<"G", 1>>, <<"i", 1>>, <<"t", 1>>, <<"H", 1>>, <<"u", 1>>,
          <<"b", 1>>, <<" ", 1>>, <<"T", 1>>, <<"r", 1>>, <<"e", 1>>,
          <<"n", 1>>, <<"d", 1>>, <<"i", 1>>, <<"n", 1>>, <<"g", 1>>,
          <<" ", 1>>, <<"(", 1>>, <<"j", 1>>, <<"u", 1>>, <<"p", 1>>,
          <<"y", 1>>, <<"t", 1>>, <<"e", 1>>, <<"r", 1>>, <<"-", 1>>,
          <<"n", 1>>, <<"o", 1>>, <<"t", 1>>, <<"e", 1>>, <<"b", 1>>,
          <<"o", 2>>, <<"k", 1>>, <<")", 1>>>>,
        <<<<"U+00F0", 1>>, <<"U+0178", 1>>, <<"U+201C", 2>>>>>>,
      <<<<<<"G", 1>>, <<"i", 1>>, <<"t", 1>>, <<"H", 1>>, <<"u", 1>>,
          <<"b", 1>>, <<" ", 1>>, <<"T", 1>>, <<"r", 1>>, <<"e", 1>>,
          <<"n", 1>>, <<"d", 1>>, <<"i", 1>>, <<"n", 1>>, <<"g", 1>>,
          <<" ", 1>>, <<"(", 1>>, <<"g", 1>>, <<"o", 2>>, <<"g", 1>>,
          <<"l", 1>>, <<"e", 1>>, <<" ", 1>>, <<"c", 1>>, <<"o", 1>>,
          <<"l", 1>>, <<"a", 1>>, <<"b", 1>>, <<")", 1>>>>,
        <<<<"U+00E2", 1>>, <<"U+02DC", 1>>, <<"U+00EF", 1>>, <<"U+00B8", 1>>>>>>,
      <<<<<<"G", 1>>, <<"i", 1>>, <<"t", 1>>, <<"H", 1>>, <<"u", 1>>,
          <<"b", 1>>, <<" ", 1>>, <<"T", 1>>, <<"r", 1>>, <<"e", 1>>,
          <<"n", 1>>, <<"d", 1>>, <<"i", 1>>, <<"n", 1>>, <<"g", 1>>,
          <<" ", 1>>, <<"(", 1>>, <<"A", 1>>, <<"r", 1>>, <<"t", 1>>,
          <<"i", 1>>, <<"f", 1>>, <<"i", 1>>, <<"c", 1>>, <<"i", 1>>,
          <<"a", 1>>, <<"l", 1>>, <<" ", 1>>, <<"I", 1>>, <<"n", 1>>,
          <<"t", 1>>, <<"e", 1>>, <<"l", 2>>, <<"i", 1>>, <<"g", 1>>,
          <<"e", 1>>, <<"n", 1>>, <<"c", 1>>, <<"e", 1>>, <<")", 1>>>>,
        <<<<"U+00F0", 1>>, <<"U+0178", 1>>, <<"U+00A7", 1>>, <<"U+00A0", 1>>>>>>,
      <<<<<<"G", 1>>, <<"i", 1>>, <<"t", 1>>, <<"H", 1>>, <<"u", 1>>,
          <<"b", 1>>, <<" ", 1>>, <<"T", 1>>, <<"r", 1>>, <<"e", 1>>,
          <<"n", 1>>, <<"d", 1>>, <<"i", 1>>, <<"n", 1>>, <<"g", 1>>,
          <<" ", 1>>, <<"(", 1>>, <<"A", 1>>, <<"I", 1>>, <<")", 1>>>>,
        <<<<"U+00F0", 1>>, <<"U+0178", 1>>, <<"U+00A7", 1>>, <<"U+00A0", 1>>>>>>,
      <<<<<<"G", 1>>, <<"i", 1>>, <<"t", 1>>, <<"H", 1>>, <<"u", 1>>,
          <<"b", 1>>, <<" ", 1>>, <<"T", 1>>, <<"r", 1>>, <<"e", 1>>,
          <<"n", 1>>, <<"d", 1>>, <<"i", 1>>, <<"n", 1>>, <<"g", 1>>,
          <<" ", 1>>, <<"(", 1>>, <<"m", 1>>, <<"a", 1>>, <<"c", 1>>,
          <<"h", 1>>, <<"i", 1>>, <<"n", 1>>, <<"e", 1>>, <<"-", 1>>,
          <<"l", 1>>, <<"e", 1>>, <<"a", 1>>, <<"r", 1>>, <<"n", 1>>,
          <<"i", 1>>, <<"n", 1>>, <<"g", 1>>, <<")", 1>>>>,
        <<<<"U+00F0", 1>>, <<"U+0178", 1>>, <<"U+201C", 1>>, <<"U+02C6", 1>>>>>>,
      <<<<<<"G", 1>>, <<"i", 1>>, <<"t", 1>>, <<"H", 1>>, <<"u", 1>>,
          <<"b", 1>>, <<" ", 1>>, <<"T", 1>>, <<"r", 1>>, <<"e", 1>>,
          <<"n", 1>>, <<"d", 1>>, <<"i", 1>>, <<"n", 1>>, <<"g", 1>>,
          <<" ", 1>>, <<"(", 1>>, <<"d", 1>>, <<"e", 2>>, <<"p", 1>>,
          <<"-", 1>>, <<"l", 1>>, <<"e", 1>>, <<"a", 1>>, <<"r", 1>>,
          <<"n", 1>>, <<"i", 1>>, <<"n", 1>>, <<"g", 1>>, <<")", 1>>>>,
        <<<<"U+00F0", 1>>, <<"U+0178", 1>>, <<"U+0152", 2>>>>>>,
      <<<<<<"G", 1>>, <<"i", 1>>, <<"t", 1>>, <<"H", 1>>, <<"u", 1>>,
          <<"b", 1>>, <<" ", 1>>, <<"T", 1>>, <<"r", 1>>, <<"e", 1>>,
          <<"n", 1>>, <<"d", 1>>, <<"i", 1>>, <<"n", 1>>, <<"g", 1>>,
          <<" ", 1>>, <<"(", 1>>, <<"n", 1>>, <<"l", 1>>, <<"p", 1>>,
          <<")", 1>>>>,
        <<<<"U+00F0", 1>>, <<"U+0178", 1>>, <<"U+2014", 1>>, <<"U+00A3", 1>>,
          <<"U+00EF", 1>>, <<"U+00B8", 1>>>>>>,
      <<<<<<"G", 1>>, <<"i", 1>>, <<"t", 1>>, <<"H", 1>>, <<"u", 1>>,
          <<"b", 1>>, <<" ", 1>>, <<"T", 1>>, <<"r", 1>>, <<"e", 1>>,
          <<"n", 1>>, <<"d", 1>>, <<"i", 1>>, <<"n", 1>>, <<"g", 1>>,
          <<" ", 1>>, <<"(", 1>>, <<"N", 1>>, <<"a", 1>>, <<"t", 1>>,
          <<"u", 1>>, <<"r", 1>>, <<"a", 1>>, <<"l", 1>>, <<" ", 1>>,
          <<"L", 1>>, <<"a", 1>>, <<"n", 1>>, <<"g", 1>>, <<"u", 1>>,
          <<"a", 1>>, <<"g", 1>>, <<"e", 1>>, <<" ", 1>>, <<"P", 1>>,
          <<"r", 1>>, <<"o", 1>>, <<"c", 1>>, <<"e", 1>>, <<"s", 2>>,
          <<"i", 1>>, <<"n", 1>>, <<"g", 1>>, <<")", 1>>>>,
        <<<<"U+00F0", 1>>, <<"U+0178", 1>>, <<"U+2014", 1>>, <<"U+00A3", 1>>,
          <<"U+00EF", 1>>, <<"U+00B8", 1>>>>>>,
      <<<<<<"G", 1>>, <<"i", 1>>, <<"t", 1>>, <<"H", 1>>, <<"u", 1>>,
          <<"b", 1>>, <<" ", 1>>, <<"T", 1>>, <<"r", 1>>, <<"e", 1>>,
          <<"n", 1>>, <<"d", 1>>, <<"i", 1>>, <<"n", 1>>, <<"g", 1>>,
          <<" ", 1>>, <<"(", 1>>, <<"C", 1>>, <<"V", 1>>, <<")", 1>>>>,
        <<<<"U+00F0", 1>>, <<"U+0178", 1>>, <<"U+2018", 1>>, <<"U+00EF", 1>>,
          <<"U+00B8", 1>>>>>>,
      <<<<<<"G", 1>>, <<"i", 1>>, <<"t", 1>>, <<"H", 1>>, <<"u", 1>>,
          <<"b", 1>>, <<" ", 1>>, <<"T", 1>>, <<"r", 1>>, <<"e", 1>>,
          <<"n", 1>>, <<"d", 1>>, <<"i", 1>>, <<"n", 1>>, <<"g", 1>>,
          <<" ", 1>>, <<"(", 1>>, <<"C", 1>>, <<"o", 1>>, <<"m", 1>>,
          <<"p", 1>>, <<"u", 1>>, <<"t", 1>>, <<"e", 1>>, <<"r", 1>>,
          <<" ", 1>>, <<"V", 1>>, <<"i", 1>>, <<"s", 1>>, <<"i", 1>>,
          <<"o", 1>>, <<"n", 1>>, <<")", 1>>>>,
        <<<<"U+00F0", 1>>, <<"U+0178", 1>>, <<"U+2018", 1>>, <<"U+00EF", 1>>,
          <<"U+00B8", 1>>>>>>,
      <<<<<<"G", 1>>, <<"i", 1>>, <<"t", 1>>, <<"H", 1>>, <<"u", 1>>,
          <<"b", 1>>, <<" ", 1>>, <<"T", 1>>, <<"r", 1>>, <<"e", 1>>,
          <<"n", 1>>, <<"d", 1>>, <<"i", 1>>, <<"n", 1>>, <<"g", 1>>,
          <<" ", 1>>, <<"(", 1>>, <<"D", 1>>, <<"a", 1>>, <<"t", 1>>,
          <<"a", 1>>, <<" ", 1>>, <<"S", 1>>, <<"c", 1>>, <<"i", 1>>,
          <<"e", 1>>, <<"n", 1>>, <<"c", 1>>, <<"e", 1>>, <<")", 1>>>>,
        <<<<"U+00F0", 1>>, <<"U+0178", 1>>, <<"U+00A7", 1>>, <<"U+00AA", 1>>>>>>,
      <<<<<<"G", 1>>, <<"i", 1>>, <<"t", 1>>, <<"H", 1>>, <<"u", 1>>,
          <<"b", 1>>, <<" ", 1>>, <<"T", 1>>, <<"r", 1>>, <<"e", 1>>,
          <<"n", 1>>, <<"d", 1>>, <<"i", 1>>, <<"n", 1>>, <<"g", 1>>,
          <<" ", 1>>, <<"(", 1>>, <<"A", 1>>, <<"w", 1>>, <<"e", 1>>,
          <<"s", 1>>, <<"o", 1>>, <<"m", 1>>, <<"e", 1>>, <<" ", 1>>,
          <<"L", 1>>, <<"i", 1>>, <<"s", 1>>, <<"t", 1>>, <<"s", 1>>,
          <<")", 1>>>>,
        <<<<"U+00E2", 1>>, <<"U+00AD", 1>>>>>>
   >>

DEFAULT_EMOJI == <<<<"U+00E2", 1>>, <<"U+0153", 1>>, <<"U+00A8", 1>>>>

\* get_source_emoji(source_name): emoji_map.get(source_name, default)
get_source_emoji(source_name) ==
    LET hits == {k \in 1..Len(emoji_map) : emoji_map[k][1] = source_name}
    IN  IF hits = {} THEN DEFAULT_EMOJI
        ELSE emoji_map[CHOOSE k \in hits : \A h \in hits : h <= k][2]

NO_TITLE == <<<<"N", 1>>, <<"o", 1>>, <<" ", 1>>, <<"T", 1>>, <<"i", 1>>,
              <<"t", 1>>, <<"l", 1>>, <<"e", 1>>>>

ELLIPSIS == <<<<".", 3>>>>

COLON_SPACE == <<<<":", 1>>, <<" ", 1>>>>

SUMMARY_MAX == 200

\* (summary[:200] + '...') if len(summary) > 200 else summary
Truncate(summary) ==
    IF StrLen(summary) > SUMMARY_MAX
    THEN Cat(Slice(summary, SUMMARY_MAX), ELLIPSIS)
    ELSE summary

\* BeautifulSoup(summary, "html.parser").get_text(separator=' ', strip=True)
\* on a text that holds no markup: the text without its outer whitespace
get_text(summary) == Strip(summary)

\* "link and link not in sent_links" for an optional link
HasField(e, f) == f \in DOMAIN e

\* the condition without "not in sent_links": an adapter that does not
\* consult the ledger, against which the ledger property is tried
IsLink(e, f, sent_links) == HasField(e, f) /\ e[f] # <<>>

IsNewLink(e, f, sent_links) ==
    HasField(e, f) /\ e[f] # <<>> /\ e[f] \notin sent_links

\* the loop body of get_rss_feed_items for one entry: the items it appends
RssEntryItems(entry, source_name, sent_links) ==
    LET title == IF HasField(entry, "title") THEN entry.title ELSE NO_TITLE
        raw == IF HasField(entry, "summary") THEN entry.summary
               ELSE IF HasField(entry, "description") THEN entry.description
               ELSE title
        summary == Truncate(get_text(raw))
    IN  IF IsNewLink(entry, "link", sent_links)
        THEN << <<CatAll(<<source_name, COLON_SPACE, title>>),
                  entry.link, summary, source_name>> >>
        ELSE <<>>

\* get_rss_feed_items(feed_url, source_name, sent_links, limit), feed being
\* what feedparser.parse(feed_url) gives: [ok |-> FALSE] when it raises
get_rss_feed_items(feed, source_name, sent_links, limit) ==
    IF ~feed.ok THEN <<>>
    ELSE FlatMap(LAMBDA entry : RssEntryItems(entry, source_name, sent_links),
                 PySlice(feed.entries, limit), 1,
                 Len(PySlice(feed.entries, limit)))

HACKER_NEWS == <<<<"H", 1>>, <<"a", 1>>, <<"c", 1>>, <<"k", 1>>, <<"e", 1>>,
                 <<"r", 1>>, <<" ", 1>>, <<"N", 1>>, <<"e", 1>>, <<"w", 1>>,
                 <<"s", 1>>>>

HN_ITEM_URL ==
    <<<<"h", 1>>, <<"t", 2>>, <<"p", 1>>, <<"s", 1>>, <<":", 1>>, <<"/", 2>>,
      <<"n", 1>>, <<"e", 1>>, <<"w", 1>>, <<"s", 1>>, <<".", 1>>, <<"y", 1>>,
      <<"c", 1>>, <<"o", 1>>, <<"m", 1>>, <<"b", 1>>, <<"i", 1>>, <<"n", 1>>,
      <<"a", 1>>, <<"t", 1>>, <<"o", 1>>, <<"r", 1>>, <<".", 1>>, <<"c", 1>>,
      <<"o", 1>>, <<"m", 1>>, <<"/", 1>>, <<"i", 1>>, <<"t", 1>>, <<"e", 1>>,
      <<"m", 1>>, <<"?", 1>>, <<"i", 1>>, <<"d", 1>>, <<"=", 1>>>>

HN_DEFAULT_SUMMARY ==
    <<<<"C", 1>>, <<"l", 1>>, <<"i", 1>>, <<"c", 1>>, <<"k", 1>>, <<" ", 1>>,
      <<"t", 1>>, <<"o", 1>>, <<" ", 1>>, <<"r", 1>>, <<"e", 1>>, <<"a", 1>>,
      <<"d", 1>>, <<" ", 1>>, <<"m", 1>>, <<"o", 1>>, <<"r", 1>>, <<"e", 1>>,
      <<" ", 1>>, <<"o", 1>>, <<"r", 1>>, <<" ", 1>>, <<"j", 1>>, <<"o", 1>>,
      <<"i", 1>>, <<"n", 1>>, <<" ", 1>>, <<"t", 1>>, <<"h", 1>>, <<"e", 1>>,
      <<" ", 1>>, <<"d", 1>>, <<"i", 1>>, <<"s", 1>>, <<"c", 1>>, <<"u", 1>>,
      <<"s", 2>>, <<"i", 1>>, <<"o", 1>>, <<"n", 1>>, <<".", 1>>>>

DigitChars == <<"0", "1", "2", "3", "4", "5", "6", "7", "8", "9">>

\* str(n) of a non-negative int
RECURSIVE Digits(_)
Digits(n) ==
    IF n < 10 THEN Run(DigitChars[n + 1], 1)
    ELSE Cat(Digits(n \div 10), Run(DigitChars[(n % 10) + 1], 1))

\* the loop body of get_hacker_news_items for one fetched story
HnStoryItems(story_id, story_data, sent_links) ==
    LET title == IF HasField(story_data, "title") THEN story_data.title
                 ELSE NO_TITLE
        link == IF HasField(story_data, "url") THEN story_data.url
                ELSE Cat(HN_ITEM_URL, Digits(story_id))
        raw == IF HasField(story_data, "text") THEN story_data.text
               ELSE HN_DEFAULT_SUMMARY
        summary == Truncate(get_text(raw))
    IN  IF title # <<>> /\ link # <<>> /\ link \notin sent_links
        THEN << <<CatAll(<<HACKER_NEWS, COLON_SPACE, title>>),
                  link, summary, HACKER_NEWS>> >>
        ELSE <<>>

\* the story loop: a detail request that raises leaves the loop through the
\* except clauses of the function, which return []
HnLoop(story_ids, details, sent_links) ==
    FoldLeft(LAMBDA st, story_id :
               IF ~st.ok \/ ~details[story_id].ok
               THEN [ok |-> FALSE, items |-> <<>>]
               ELSE [ok |-> TRUE,
                     items |-> st.items
                                 \o HnStoryItems(story_id, details[story_id].data,
                                                 sent_links)],
             [ok |-> TRUE, items |-> <<>>], story_ids, 1, Len(story_ids))

\* get_hacker_news_items(sent_links, limit); top is the answer to the
\* topstories request and details[id] the answer to the request for story id
get_hacker_news_items(top, details, sent_links, limit) ==
    IF ~top.ok THEN <<>>
    ELSE HnLoop(PySlice(top.ids, limit), details, sent_links).items

GITHUB_TRENDING_OPEN ==
    <<<<"G", 1>>, <<"i", 1>>, <<"t", 1>>, <<"H", 1>>, <<"u", 1>>, <<"b", 1>>,
      <<" ", 1>>, <<"T", 1>>, <<"r", 1>>, <<"e", 1>>, <<"n", 1>>, <<"d", 1>>,
      <<"i", 1>>, <<"n", 1>>, <<"g", 1>>, <<" ", 1>>, <<"(", 1>>>>

CLOSE_PAREN == <<<<")", 1>>>>

NO_REPOSITORY_NAME ==
    <<<<"N", 1>>, <<"o", 1>>, <<" ", 1>>, <<"R", 1>>, <<"e", 1>>, <<"p", 1>>,
      <<"o", 1>>, <<"s", 1>>, <<"i", 1>>, <<"t", 1>>, <<"o", 1>>, <<"r", 1>>,
      <<"y", 1>>, <<" ", 1>>, <<"N", 1>>, <<"a", 1>>, <<"m", 1>>, <<"e", 1>>>>

GITHUB_URL ==
    <<<<"h", 1>>, <<"t", 2>>, <<"p", 1>>, <<"s", 1>>, <<":", 1>>, <<"/", 2>>,
      <<"g", 1>>, <<"i", 1>>, <<"t", 1>>, <<"h", 1>>, <<"u", 1>>, <<"b", 1>>,
      <<".", 1>>, <<"c", 1>>, <<"o", 1>>, <<"m", 1>>>>

NO_DESCRIPTION ==
    <<<<"N", 1>>, <<"o", 1>>, <<" ", 1>>, <<"d", 1>>, <<"e", 1>>, <<"s", 1>>,
      <<"c", 1>>, <<"r", 1>>, <<"i", 1>>, <<"p", 1>>, <<"t", 1>>, <<"i", 1>>,
      <<"o", 1>>, <<"n", 1>>, <<" ", 1>>, <<"a", 1>>, <<"v", 1>>, <<"a", 1>>,
      <<"i", 1>>, <<"l", 1>>, <<"a", 1>>, <<"b", 1>>, <<"l", 1>>, <<"e", 1>>,
      <<".", 1>>>>

\* s.replace("\n", "").replace(" ", "")
RemoveSpaces(s) ==
    CatMap(LAMBDA r : IF r[1] \in {"\n", " "} THEN <<>> ELSE <<r>>,
           s, 1, Len(s))

\* f"GitHub Trending ({language})"
GithubSourceName(language) ==
    CatAll(<<GITHUB_TRENDING_OPEN, language, CLOSE_PAREN>>)

\* the loop body of get_github_trending_repos for one article; the article
\* has "name" (the text of its h2 a tag) when the tag exists, "href" when the
\* tag has the attribute, "description" when the p tag exists
GithubArticleItems(article, source_name, sent_links) ==
    LET repo_name == IF HasField(article, "name")
                     THEN RemoveSpaces(Strip(article.name))
                     ELSE NO_REPOSITORY_NAME
        has_link == HasField(article, "name") /\ HasField(article, "href")
        link == IF has_link THEN Cat(GITHUB_URL, article.href) ELSE <<>>
        summary == Truncate(IF HasField(article, "description")
                            THEN Strip(article.description)
                            ELSE NO_DESCRIPTION)
    IN  IF has_link /\ link # <<>> /\ link \notin sent_links
        THEN << <<CatAll(<<source_name, COLON_SPACE, repo_name>>),
                  link, summary, source_name>> >>
        ELSE <<>>

\* get_github_trending_repos(language, sent_links, limit); page is the answer
\* to the request for the trending page: [ok |-> FALSE] when the request or
\* raise_for_status raises
get_github_trending_repos(page, language, sent_links, limit) ==
    IF ~page.ok THEN <<>>
    ELSE FlatMap(LAMBDA article :
                   GithubArticleItems(article, GithubSourceName(language),
                                      sent_links),
                 PySlice(page.articles, limit), 1,
                 Len(PySlice(page.articles, limit)))

----------------------------------------------------------------------------
(* main.py: configuration and collect_all_news *)

TELEGRAM_MAX_LENGTH == 4096

\* the get_rss_feed_items calls of collect_all_news, in call order:
\* <<feed_url, source_name, limit>>
RSS_FEEDS ==
   <<
      <<"https://hf.co/blog/feed.xml",
        <<<<"H", 1>>, <<"u", 1>>, <<"g", 2>>, <<"i", 1>>, <<"n", 1>>,
          <<"g", 1>>, <<" ", 1>>, <<"F", 1>>, <<"a", 1>>, <<"c", 1>>,
          <<"e", 1>>, <<" ", 1>>, <<"B", 1>>, <<"l", 1>>, <<"o", 1>>,
          <<"g", 1>>>>, 10>>,
      <<"https://jamesg.blog/hf-papers.xml",
        <<<<"H", 1>>, <<"u", 1>>, <<"g", 2>>, <<"i", 1>>, <<"n", 1>>,
          <<"g", 1>>, <<" ", 1>>, <<"F", 1>>, <<"a", 1>>, <<"c", 1>>,
          <<"e", 1>>, <<" ", 1>>, <<"P", 1>>, <<"a", 1>>, <<"p", 1>>,
          <<"e", 1>>, <<"r", 1>>>>, 10>>,
      <<"https://www.reddit.com/r/MachineLearning/.rss",
        <<<<"M", 1>>, <<"L", 1>>, <<" ", 1>>, <<"R", 1>>, <<"e", 1>>,
          <<"d", 2>>, <<"i", 1>>, <<"t", 1>>>>, 10>>,
      <<"https://openai.com/blog/rss.xml",
        <<<<"O", 1>>, <<"p", 1>>, <<"e", 1>>, <<"n", 1>>, <<"A", 1>>,
          <<"I", 1>>, <<" ", 1>>, <<"B", 1>>, <<"l", 1>>, <<"o", 1>>,
          <<"g", 1>>>>, 10>>,
      <<"https://thegradient.pub/rss/",
        <<<<"T", 1>>, <<"h", 1>>, <<"e", 1>>, <<" ", 1>>, <<"G", 1>>,
          <<"r", 1>>, <<"a", 1>>, <<"d", 1>>, <<"i", 1>>, <<"e", 1>>,
          <<"n", 1>>, <<"t", 1>>>>, 10>>,
      <<"https://jalammar.github.io/feed.xml",
        <<<<"J", 1>>, <<"a", 1>>, <<"y", 1>>, <<" ", 1>>, <<"A", 1>>,
          <<"l", 1>>, <<"a", 1>>, <<"m", 2>>, <<"a", 1>>, <<"r", 1>>>>, 10>>,
      <<"https://deepmind.google/blog/rss.xml",
        <<<<"D", 1>>, <<"e", 2>>, <<"p", 1>>, <<"M", 1>>, <<"i", 1>>,
          <<"n", 1>>, <<"d", 1>>, <<" ", 1>>, <<"B", 1>>, <<"l", 1>>,
          <<"o", 1>>, <<"g", 1>>>>, 10>>,
      <<"https://news.mit.edu/rss/topic/artificial-intelligence2",
        <<<<"A", 1>>, <<"I", 1>>, <<" ", 1>>, <<"F", 1>>, <<"r", 1>>,
          <<"o", 1>>, <<"m", 1>>, <<" ", 1>>, <<"M", 1>>, <<"I", 1>>,
          <<"T", 1>>, <<" ", 1>>, <<"N", 1>>, <<"e", 1>>, <<"w", 1>>,
          <<"s", 1>>>>, 10>>,
      <<"https://www.technologyreview.com/feed/",
        <<<<"G", 1>>, <<"e", 1>>, <<"n", 1>>, <<"e", 1>>, <<"r", 1>>,
          <<"a", 1>>, <<"l", 1>>, <<" ", 1>>, <<"N", 1>>, <<"e", 1>>,
          <<"w", 1>>, <<"s", 1>>, <<" ", 1>>, <<"F", 1>>, <<"r", 1>>,
          <<"o", 1>>, <<"m", 1>>, <<" ", 1>>, <<"M", 1>>, <<"I", 1>>,
          <<"T", 1>>, <<" ", 1>>, <<"N", 1>>, <<"e", 1>>, <<"w", 1>>,
          <<"s", 1>>>>, 10>>,
      <<"https://blogs.microsoft.com/ai/feed/",
        <<<<"M", 1>>, <<"i", 1>>, <<"c", 1>>, <<"r", 1>>, <<"o", 1>>,
          <<"s", 1>>, <<"o", 1>>, <<"f", 1>>, <<"t", 1>>, <<" ", 1>>,
          <<"A", 1>>, <<"I", 1>>, <<" ", 1>>, <<"B", 1>>, <<"l", 1>>,
          <<"o", 1>>, <<"g", 1>>>>, 10>>,
      <<"https://machinelearningmastery.com/blog/feed/",
        <<<<"m", 1>>, <<"a", 1>>, <<"c", 1>>, <<"h", 1>>, <<"i", 1>>,
          <<"n", 1>>, <<"e", 1>>, <<"l", 1>>, <<"e", 1>>, <<"a", 1>>,
          <<"r", 1>>, <<"n", 1>>, <<"i", 1>>, <<"n", 1>>, <<"g", 1>>,
          <<"m", 1>>, <<"a", 1>>, <<"s", 1>>, <<"t", 1>>, <<"e", 1>>,
          <<"r", 1>>, <<"y", 1>>, <<" ", 1>>, <<"B", 1>>, <<"l", 1>>,
          <<"o", 1>>, <<"g", 1>>>>, 10>>,
      <<"https://blogs.nvidia.com/blog/category/ai/feed/",
        <<<<"N", 1>>, <<"v", 1>>, <<"i", 1>>, <<"d", 1>>, <<"i", 1>>,
          <<"a", 1>>, <<" ", 1>>, <<"A", 1>>, <<"I", 1>>, <<" ", 1>>,
          <<"B", 1>>, <<"l", 1>>, <<"o", 1>>, <<"g", 1>>>>, 10>>,
      <<"https://towardsdatascience.com/feed/",
        <<<<"T", 1>>, <<"o", 1>>, <<"w", 1>>, <<"a", 1>>, <<"r", 1>>,
          <<"d", 1>>, <<"s", 1>>, <<" ", 1>>, <<"D", 1>>, <<"a", 1>>,
          <<"t", 1>>, <<"a", 1>>, <<" ", 1>>, <<"S", 1>>, <<"c", 1>>,
          <<"i", 1>>, <<"e", 1>>, <<"n", 1>>, <<"c", 1>>, <<"e", 1>>>>, 10>>,
      <<"http://theverge.com/rss/index.xml",
        <<<<"T", 1>>, <<"h", 1>>, <<"e", 1>>, <<" ", 1>>, <<"V", 1>>,
          <<"e", 1>>, <<"r", 1>>, <<"g", 1>>, <<"e", 1>>>>, 20>>
   >>

\* the get_github_trending_repos calls, in call order: <<language, limit>>
GITHUB_TOPICS ==
   <<
      <<<<<<"p", 1>>, <<"y", 1>>, <<"t", 1>>, <<"h", 1>>, <<"o", 1>>,
          <<"n", 1>>>>, 10>>,
      <<<<<<"j", 1>>, <<"u", 1>>, <<"p", 1>>, <<"y", 1>>, <<"t", 1>>,
          <<"e", 1>>, <<"r", 1>>, <<"-", 1>>, <<"n", 1>>, <<"o", 1>>,
          <<"t", 1>>, <<"e", 1>>, <<"b", 1>>, <<"o", 2>>, <<"k", 1>>>>, 10>>,
      <<<<<<"g", 1>>, <<"o", 2>>, <<"g", 1>>, <<"l", 1>>, <<"e", 1>>,
          <<" ", 1>>, <<"c", 1>>, <<"o", 1>>, <<"l", 1>>, <<"a", 1>>,
          <<"b", 1>>>>, 10>>,
      <<<<<<"A", 1>>, <<"r", 1>>, <<"t", 1>>, <<"i", 1>>, <<"f", 1>>,
          <<"i", 1>>, <<"c", 1>>, <<"i", 1>>, <<"a", 1>>, <<"l", 1>>,
          <<" ", 1>>, <<"I", 1>>, <<"n", 1>>, <<"t", 1>>, <<"e", 1>>,
          <<"l", 2>>, <<"i", 1>>, <<"g", 1>>, <<"e", 1>>, <<"n", 1>>,
          <<"c", 1>>, <<"e", 1>>>>, 10>>,
      <<<<<<"A", 1>>, <<"I", 1>>>>, 10>>,
      <<<<<<"m", 1>>, <<"a", 1>>, <<"c", 1>>, <<"h", 1>>, <<"i", 1>>,
          <<"n", 1>>, <<"e", 1>>, <<"-", 1>>, <<"l", 1>>, <<"e", 1>>,
          <<"a", 1>>, <<"r", 1>>, <<"n", 1>>, <<"i", 1>>, <<"n", 1>>,
          <<"g", 1>>>>, 10>>,
      <<<<<<"d", 1>>, <<"e", 2>>, <<"p", 1>>, <<"-", 1>>, <<"l", 1>>,
          <<"e", 1>>, <<"a", 1>>, <<"r", 1>>, <<"n", 1>>, <<"i", 1>>,
          <<"n", 1>>, <<"g", 1>>>>, 10>>,
      <<<<<<"n", 1>>, <<"l", 1>>, <<"p", 1>>>>, 10>>,
      <<<<<<"N", 1>>, <<"a", 1>>, <<"t", 1>>, <<"u", 1>>, <<"r", 1>>,
          <<"a", 1>>, <<"l", 1>>, <<" ", 1>>, <<"L", 1>>, <<"a", 1>>,
          <<"n", 1>>, <<"g", 1>>, <<"u", 1>>, <<"a", 1>>, <<"g", 1>>,
          <<"e", 1>>, <<" ", 1>>, <<"P", 1>>, <<"r", 1>>, <<"o", 1>>,
          <<"c", 1>>, <<"e", 1>>, <<"s", 2>>, <<"i", 1>>, <<"n", 1>>,
          <<"g", 1>>>>, 10>>,
      <<<<<<"C", 1>>, <<"V", 1>>>>, 10>>,
      <<<<<<"C", 1>>, <<"o", 1>>, <<"m", 1>>, <<"p", 1>>, <<"u", 1>>,
          <<"t", 1>>, <<"e", 1>>, <<"r", 1>>, <<" ", 1>>, <<"V", 1>>,
          <<"i", 1>>, <<"s", 1>>, <<"i", 1>>, <<"o", 1>>, <<"n", 1>>>>, 10>>,
      <<<<<<"D", 1>>, <<"a", 1>>, <<"t", 1>>, <<"a", 1>>, <<" ", 1>>,
          <<"S", 1>>, <<"c", 1>>, <<"i", 1>>, <<"e", 1>>, <<"n", 1>>,
          <<"c", 1>>, <<"e", 1>>>>, 10>>,
      <<<<<<"A", 1>>, <<"w", 1>>, <<"e", 1>>, <<"s", 1>>, <<"o", 1>>,
          <<"m", 1>>, <<"e", 1>>, <<" ", 1>>, <<"L", 1>>, <<"i", 1>>,
          <<"s", 1>>, <<"t", 1>>, <<"s", 1>>>>, 10>>
   >>

HN_LIMIT == 20

\* the all_news_items.extend(...) calls; world holds what each source
\* answers in this run
CollectRss(world, sent_links) ==
    FlatMap(LAMBDA f : get_rss_feed_items(world.rss[f[1]], f[2], sent_links,
                                          f[3]),
            RSS_FEEDS, 1, Len(RSS_FEEDS))

CollectGithub(world, sent_links) ==
    FlatMap(LAMBDA t : get_github_trending_repos(world.github[t[1]], t[1],
                                                 sent_links, t[2]),
            GITHUB_TOPICS, 1, Len(GITHUB_TOPICS))

\* all_news_items at line 87
AllNewsItems(world, sent_links) ==
    CollectRss(world, sent_links)
      \o CollectGithub(world, sent_links)
      \o get_hacker_news_items(world.hn_top, world.hn_item, sent_links, HN_LIMIT)

\* a collection that keeps every occurrence: collect_all_news without its
\* dictionary, against which the dedup property is tried
DictAppend(d, item) == Append(d, item)

\* a dict whose known key keeps the value it has: first writer wins, against
\* which the collision rule is tried
DictKeepFirst(d, item) ==
    IF \E p \in 1..Len(d) : d[p][2] = item[2] THEN d ELSE Append(d, item)

\* unique_news_items[link] = item on a dict kept as the sequence of its values
\* in insertion order: a new key goes last, a known key keeps its place and
\* takes the new value
DictPut(d, item) ==
    LET hits == {p \in 1..Len(d) : d[p][2] = item[2]}
    IN  IF hits = {} THEN Append(d, item)
        ELSE [d EXCEPT ![CHOOSE p \in hits : TRUE] = item]

Dedup(all_news_items) ==
    FoldLeft(DictPut, <<>>, all_news_items, 1, Len(all_news_items))

\* collect_all_news(sent_links)
collect_all_news(world, sent_links) ==
    Dedup(AllNewsItems(world, sent_links))

----------------------------------------------------------------------------
(* main.py: format_digest_message *)

DIGEST_TITLE ==
    <<<<"U+1F4F0", 1>>, <<" ", 1>>, <<"<", 1>>, <<"b", 1>>, <<">", 1>>,
      <<"U+05E1", 1>>, <<"U+05D9", 1>>, <<"U+05DB", 1>>, <<"U+05D5", 1>>,
      <<"U+05DD", 1>>, <<" ", 1>>, <<"U+05D7", 1>>, <<"U+05D3", 1>>,
      <<"U+05E9", 1>>, <<"U+05D5", 1>>, <<"U+05EA", 1>>, <<" ", 1>>,
      <<"A", 1>>, <<"I", 1>>, <<" ", 1>>, <<"U+05D9", 1>>, <<"U+05D5", 1>>,
      <<"U+05DE", 1>>, <<"U+05D9", 1>>, <<"<", 1>>, <<"/", 1>>, <<"b", 1>>,
      <<">", 1>>>>

DATE_PREFIX ==
    <<<<"U+1F5D3", 1>>, <<" ", 1>>>>

BIG_RELEASES_HEADING ==
    <<<<"U+1F680", 1>>, <<" ", 1>>, <<"<", 1>>, <<"b", 1>>, <<">", 1>>,
      <<"U+05E9", 1>>, <<"U+05D7", 1>>, <<"U+05E8", 1>>, <<"U+05D5", 1>>,
      <<"U+05E8", 1>>, <<"U+05D9", 1>>, <<"U+05DD", 1>>, <<" ", 1>>,
      <<"U+05D2", 1>>, <<"U+05D3", 1>>, <<"U+05D5", 1>>, <<"U+05DC", 1>>,
      <<"U+05D9", 1>>, <<"U+05DD", 1>>, <<"<", 1>>, <<"/", 1>>, <<"b", 1>>,
      <<">", 1>>>>

GITHUB_HEADING ==
    <<<<"U+1F525", 1>>, <<" ", 1>>, <<"<", 1>>, <<"b", 1>>, <<">", 1>>,
      <<"U+05D7", 1>>, <<"U+05DD", 1>>, <<" ", 1>>, <<"U+05D1", 1>>,
      <<"U+05D2", 1>>, <<"U+05D9", 1>>, <<"U+05D8", 1>>, <<"U+05D4", 1>>,
      <<"U+05D0", 1>>, <<"U+05D1", 1>>, <<"<", 1>>, <<"/", 1>>, <<"b", 1>>,
      <<">", 1>>>>

FLASH_HEADING ==
    <<<<"U+26A1", 1>>, <<" ", 1>>, <<"<", 1>>, <<"b", 1>>, <<">", 1>>,
      <<"U+05D7", 1>>, <<"U+05D3", 1>>, <<"U+05E9", 1>>, <<"U+05D5", 1>>,
      <<"U+05EA", 1>>, <<" ", 1>>, <<"U+05D4", 1>>, <<"U+05D1", 1>>,
      <<"U+05D6", 1>>, <<"U+05E7", 1>>, <<"<", 1>>, <<"/", 1>>, <<"b", 1>>,
      <<">", 1>>>>

BOLD_OPEN ==
    <<<<" ", 1>>, <<"<", 1>>, <<"b", 1>>, <<">", 1>>>>

BOLD_CLOSE ==
    <<<<"<", 1>>, <<"/", 1>>, <<"b", 1>>, <<">", 1>>>>

LINK_OPEN ==
    <<<<" ", 3>>, <<"U+1F517", 1>>, <<" ", 1>>, <<"<", 1>>, <<"a", 1>>,
      <<" ", 1>>, <<"h", 1>>, <<"r", 1>>, <<"e", 1>>, <<"f", 1>>, <<"=", 1>>,
      <<"'", 1>>>>

LINK_CLOSE ==
    <<<<"'", 1>>, <<">", 1>>, <<"R", 1>>, <<"e", 1>>, <<"a", 1>>, <<"d", 1>>,
      <<" ", 1>>, <<"M", 1>>, <<"o", 1>>, <<"r", 1>>, <<"e", 1>>, <<"<", 1>>,
      <<"/", 1>>, <<"a", 1>>, <<">", 1>>>>

DASH ==
    <<<<" ", 1>>, <<"U+2014", 1>>, <<" ", 1>>>>

ANCHOR_OPEN ==
    <<<<" ", 1>>, <<"<", 1>>, <<"a", 1>>, <<" ", 1>>, <<"h", 1>>, <<"r", 1>>,
      <<"e", 1>>, <<"f", 1>>, <<"=", 1>>, <<"'", 1>>>>

ANCHOR_MID ==
    <<<<"'", 1>>, <<">", 1>>>>

ANCHOR_CLOSE ==
    <<<<"<", 1>>, <<"/", 1>>, <<"a", 1>>, <<">", 1>>>>

FOOTER_PREFIX ==
    <<<<"U+1F4E3", 1>>, <<" ", 1>>, <<"C", 1>>, <<"h", 1>>, <<"a", 1>>,
      <<"n", 2>>, <<"e", 1>>, <<"l", 1>>, <<":", 1>>, <<" ", 1>>>>

NOTHING_NEW ==
    <<<<"U+05D0", 1>>, <<"U+05D9", 1>>, <<"U+05DF", 1>>, <<" ", 1>>,
      <<"U+05D7", 1>>, <<"U+05D3", 1>>, <<"U+05E9", 1>>, <<"U+05D5", 1>>,
      <<"U+05EA", 1>>, <<" ", 1>>, <<"U+05D7", 1>>, <<"U+05D3", 1>>,
      <<"U+05E9", 1>>, <<"U+05D5", 1>>, <<"U+05EA", 1>>, <<" ", 1>>,
      <<"U+05D4", 1>>, <<"U+05D9", 1>>, <<"U+05D5", 1>>, <<"U+05DD", 1>>,
      <<" ", 1>>, <<"U+1F937", 1>>>>

CONTINUATION_OPEN ==
    <<<<"U+1F4F0", 1>>, <<" ", 1>>, <<"<", 1>>, <<"b", 1>>, <<">", 1>>,
      <<"U+05D4", 1>>, <<"U+05DE", 1>>, <<"U+05E9", 1>>, <<"U+05DA", 1>>,
      <<" ", 1>>, <<"U+05E1", 1>>, <<"U+05D9", 1>>, <<"U+05DB", 1>>,
      <<"U+05D5", 1>>, <<"U+05DD", 1>>, <<" ", 1>>, <<"(", 1>>>>

CONTINUATION_CLOSE ==
    <<<<")", 1>>, <<"<", 1>>, <<"/", 1>>, <<"b", 1>>, <<">", 1>>, <<"\n", 2>>>>

NEWLINE ==
    <<<<"\n", 1>>>>

BIG_RELEASE_SCORE == 5

GITHUB_TRENDING ==
    <<"G", "i", "t", "H", "u", "b", " ", "T", "r", "e", "n", "d", "i", "n", "g">>

\* a categorisation that looks at the score before the source name, against
\* which the grouping property is tried
CategoryByScore(item) ==
    IF item[5] >= BIG_RELEASE_SCORE THEN "big_releases"
    ELSE IF Contains(GITHUB_TRENDING, item[4]) THEN "github_trending"
    ELSE "flash_news"

\* the branch of the categorisation loop an item takes
Category(item) ==
    IF Contains(GITHUB_TRENDING, item[4]) THEN "github_trending"
    ELSE IF item[5] >= BIG_RELEASE_SCORE THEN "big_releases"
    ELSE "flash_news"

\* the list the categorisation loop builds for category c
SelectItems(items, c) == SelectSeq(items, LAMBDA item : Category(item) = c)

\* "   <link emoji> <a href='{link}'>Read More</a>"
LinkLine(link) == CatAll(<<LINK_OPEN, link, LINK_CLOSE>>)

\* the lines of one item of the big-releases section
BigReleaseLines(item) ==
    << CatAll(<<get_source_emoji(item[4]), BOLD_OPEN, Escape(item[1]),
                BOLD_CLOSE>>),
       LinkLine(item[2]),
       <<>> >>

\* the lines of one item of the GitHub section
GithubLines(item) ==
    LET repo_display == AfterColonSpace(item[1])
        escaped_summary == IF item[3] # <<>> /\ item[3] # NO_DESCRIPTION
                           THEN Escape(item[3]) ELSE <<>>
    IN  << IF escaped_summary # <<>>
           THEN CatAll(<<get_source_emoji(item[4]), BOLD_OPEN,
                         Escape(repo_display), BOLD_CLOSE, DASH,
                         escaped_summary>>)
           ELSE CatAll(<<get_source_emoji(item[4]), BOLD_OPEN,
                         Escape(repo_display), BOLD_CLOSE>>),
           LinkLine(item[2]),
           <<>> >>

\* the line of one item of the flash section
FlashLines(item) ==
    << CatAll(<<get_source_emoji(item[4]), ANCHOR_OPEN, item[2], ANCHOR_MID,
                Escape(item[1]), ANCHOR_CLOSE>>) >>

BigReleaseSection(items) == FlatMap(BigReleaseLines, items, 1, Len(items))

GithubSection(items) == FlatMap(GithubLines, items, 1, Len(items))

FlashSection(items) == FlatMap(FlashLines, items, 1, Len(items))

\* lines at line 184: header, the sections that have items, footer
DigestLines(scored_items, now, channel) ==
    LET big_releases == SelectItems(scored_items, "big_releases")
        github_trending == SelectItems(scored_items, "github_trending")
        flash_news == SelectItems(scored_items, "flash_news")
    IN  << DIGEST_TITLE, Cat(DATE_PREFIX, now), <<>> >>
          \o (IF big_releases # <<>>
              THEN << BIG_RELEASES_HEADING, <<>> >>
                     \o BigReleaseSection(big_releases)
              ELSE <<>>)
          \o (IF github_trending # <<>>
              THEN << GITHUB_HEADING, <<>> >> \o GithubSection(github_trending)
              ELSE <<>>)
          \o (IF flash_news # <<>>
              THEN << FLASH_HEADING, <<>> >> \o FlashSection(flash_news)
                     \o << <<>> >>
              ELSE <<>>)
          \o << Cat(FOOTER_PREFIX, channel) >>

PART_HEADER_ROOM == 50

\* f"<title emoji> <b>... ({part_num + 1})</b>\n\n"
ContinuationHeader(part_num) ==
    CatAll(<<CONTINUATION_OPEN, Digits(part_num + 1), CONTINUATION_CLOSE>>)

\* the split loop of lines 195-201 over the remaining lines
SplitStep(st, line) ==
    LET test_line == Cat(line, NEWLINE)
        full == StrLen(st.current_msg) + StrLen(test_line)
                  > TELEGRAM_MAX_LENGTH - PART_HEADER_ROOM
    IN  [messages    |-> IF full THEN Append(st.messages, Strip(st.current_msg))
                         ELSE st.messages,
         current_msg |-> Cat(IF full THEN ContinuationHeader(st.part_num)
                             ELSE st.current_msg, test_line),
         part_num    |-> IF full THEN st.part_num + 1 ELSE st.part_num]

SplitLoop(lines) ==
    FoldLeft(SplitStep, [messages |-> <<>>, current_msg |-> <<>>, part_num |-> 1],
             lines, 1, Len(lines))

\* lines 190-207
SplitMessage(lines) ==
    LET r == SplitLoop(lines)
    IN  IF Strip(r.current_msg) # <<>>
        THEN Append(r.messages, Strip(r.current_msg))
        ELSE r.messages

\* format_digest_message(scored_items); now is the formatted clock reading and
\* channel the TELEGRAM_CHANNEL_ID_FOR_FOOTER of the process
format_digest_message(scored_items, now, channel) ==
    LET lines == DigestLines(scored_items, now, channel)
        full_message == Join(NEWLINE, lines)
    IN  IF scored_items = <<>>
        THEN << CatAll(<<DIGEST_TITLE, NEWLINE, DATE_PREFIX, now, NEWLINE,
                         NEWLINE, NOTHING_NEW, NEWLINE, NEWLINE,
                         FOOTER_PREFIX, channel>>) >>
        ELSE IF StrLen(full_message) <= TELEGRAM_MAX_LENGTH
        THEN <<full_message>>
        ELSE SplitMessage(lines)

----------------------------------------------------------------------------
(* db.py *)

\* load_sent_links(): the set of the links of the rows of table sent
load_sent_links(table) == {table[r] : r \in 1..Len(table)}

\* an insert into a table without the PRIMARY KEY: every insert adds a row,
\* against which the idempotence property is tried
InsertRow(table, link) == Append(table, link)

\* save_sent_link(link): INSERT INTO sent; link is the PRIMARY KEY, so the
\* insert of a link the table holds raises IntegrityError, which is swallowed
save_sent_link(table, link) ==
    IF \E r \in 1..Len(table) : table[r] = link THEN table
    ELSE Append(table, link)

----------------------------------------------------------------------------
(* what the sources may answer *)

Pad(t, n) == Cat(Str(t), Run(".", n))

LongTitle == 3000

HugeTitle == 5000

\* the padding with which the title line and the link line of EntryTuned
\* fill the first part of the digest up to TELEGRAM_MAX_LENGTH - 50 exactly
TunedTitle == 3899

LINK_A1 == <<<<"h", 1>>, <<"t", 2>>, <<"p", 1>>, <<"s", 1>>, <<":", 1>>,
             <<"/", 2>>, <<"a", 1>>, <<".", 1>>, <<"c", 1>>, <<"o", 1>>,
             <<"m", 1>>, <<"/", 1>>, <<"1", 1>>>>
LINK_A2 == <<<<"h", 1>>, <<"t", 2>>, <<"p", 1>>, <<"s", 1>>, <<":", 1>>,
             <<"/", 2>>, <<"a", 1>>, <<".", 1>>, <<"c", 1>>, <<"o", 1>>,
             <<"m", 1>>, <<"/", 1>>, <<"2", 1>>>>
LINK_A3 == <<<<"h", 1>>, <<"t", 2>>, <<"p", 1>>, <<"s", 1>>, <<":", 1>>,
             <<"/", 2>>, <<"a", 1>>, <<".", 1>>, <<"c", 1>>, <<"o", 1>>,
             <<"m", 1>>, <<"/", 1>>, <<"3", 1>>>>
LINK_A4 == <<<<"h", 1>>, <<"t", 2>>, <<"p", 1>>, <<"s", 1>>, <<":", 1>>,
             <<"/", 2>>, <<"a", 1>>, <<".", 1>>, <<"c", 1>>, <<"o", 1>>,
             <<"m", 1>>, <<"/", 1>>, <<"4", 1>>>>

LINK_A5 == <<<<"h", 1>>, <<"t", 2>>, <<"p", 1>>, <<"s", 1>>, <<":", 1>>,
             <<"/", 2>>, <<"a", 1>>, <<".", 1>>, <<"c", 1>>, <<"o", 1>>,
             <<"m", 1>>, <<"/", 1>>, <<"5", 1>>>>

\* feed entries
EntryTuned ==
    [title |-> Pad(<<"G", "P", "T">>, TunedTitle),
     link |-> LINK_A5,
     summary |-> <<>>]
EntryGpt ==
    [title |-> Pad(<<"N", "e", "w", " ", "G", "P", "T", " ", "r", "e", "l", "e", "a", "s", "e">>, LongTitle),
     link |-> LINK_A1,
     summary |-> <<<<"A", 1>>, <<" ", 1>>, <<"&", 1>>, <<" ", 1>>, <<"B", 1>>>>]
EntryNvidia ==
    [title |-> Pad(<<"N", "v", "i", "d", "i", "a">>, LongTitle),
     link |-> LINK_A2,
     summary |-> Pad(<<" ", "c", "h", "i", "p", "s">>, 250)]
EntryClaude ==
    [title |-> <<<<"C", 1>>, <<"l", 1>>, <<"a", 1>>, <<"u", 1>>, <<"d", 1>>,
                 <<"e", 1>>>>,
     link |-> LINK_A1]
EntryLlama ==
    [title |-> Pad(<<"L", "l", "a", "m", "a">>, HugeTitle),
     link |-> LINK_A3,
     description |-> <<<<"w", 1>>, <<"e", 1>>, <<"i", 1>>, <<"g", 1>>,
                       <<"h", 1>>, <<"t", 1>>, <<"s", 1>>>>]
EntryReport ==
    [title |-> <<<<"Q", 1>>, <<"u", 1>>, <<"a", 1>>, <<"r", 1>>, <<"t", 1>>,
                 <<"e", 1>>, <<"r", 1>>, <<"l", 1>>, <<"y", 1>>, <<" ", 1>>,
                 <<"r", 1>>, <<"e", 1>>, <<"p", 1>>, <<"o", 1>>, <<"r", 1>>,
                 <<"t", 1>>>>,
     link |-> LINK_A4,
     summary |-> <<>>]
EntryNoLink ==
    [title |-> <<<<"S", 1>>, <<"o", 1>>, <<"r", 1>>, <<"a", 1>>>>]

Failed == [ok |-> FALSE]

Feed(entries) == [ok |-> TRUE, entries |-> entries]

OPENAI_FEED == "https://openai.com/blog/rss.xml"

RssAnswers ==
    { Failed,
      Feed(<<>>),
      Feed(<<EntryGpt, EntryReport, EntryNoLink>>),
      Feed(<<EntryGpt, EntryClaude, EntryNvidia>>),
      Feed(<<EntryNvidia, EntryLlama>>) }

\* trending-page articles
ArticleAgent ==
    [name |-> <<<<"o", 1>>, <<"r", 1>>, <<"g", 1>>, <<" ", 1>>, <<"/", 1>>,
                <<"\n", 1>>, <<" ", 1>>, <<"r", 1>>, <<"e", 1>>, <<"p", 1>>,
                <<"o", 1>>, <<"\n", 1>>>>,
     href |-> <<<<"/", 1>>, <<"o", 1>>, <<"r", 1>>, <<"g", 1>>, <<"/", 1>>,
                <<"r", 1>>, <<"e", 1>>, <<"p", 1>>, <<"o", 1>>>>,
     description |-> Pad(<<" ", "A", "n", " ", "a", "g", "e", "n", "t", " ", "<", "f", "r", "a", "m", "e", "w", "o", "r", "k", ">">>, 3)]
ArticleBare ==
    [name |-> <<<<"x", 1>>, <<"/", 1>>, <<"y", 1>>>>]

Page(articles) == [ok |-> TRUE, articles |-> articles]

PYTHON == <<<<"p", 1>>, <<"y", 1>>, <<"t", 1>>, <<"h", 1>>, <<"o", 1>>,
            <<"n", 1>>>>

GithubAnswers ==
    { Failed, Page(<<ArticleAgent, ArticleBare>>) }

\* link-aggregator stories
StoryMistral ==
    [ok |-> TRUE,
     data |-> [title |-> Pad(<<"M", "i", "s", "t", "r", "a", "l">>, LongTitle),
               url |-> LINK_A2]]
StoryAsk ==
    [ok |-> TRUE,
     data |-> [title |-> <<<<"A", 1>>, <<"s", 1>>, <<"k", 1>>, <<":", 1>>,
                           <<" ", 1>>, <<"f", 1>>, <<"i", 1>>, <<"n", 1>>,
                           <<"e", 1>>, <<"-", 1>>, <<"t", 1>>, <<"u", 1>>,
                           <<"n", 1>>, <<"e", 1>>, <<"?", 1>>>>,
               text |-> <<<<"h", 1>>, <<"o", 1>>, <<"w", 1>>>>]]
StoryDeepseek ==
    [ok |-> TRUE,
     data |-> [title |-> <<<<"D", 1>>, <<"e", 2>>, <<"p", 1>>, <<"S", 1>>,
                           <<"e", 2>>, <<"k", 1>>>>,
               url |-> LINK_A4]]

StoryUntitled ==
    [ok |-> TRUE,
     data |-> [title |-> <<>>,
               url |-> LINK_A3]]

Top(ids) == [ok |-> TRUE, ids |-> ids]

StoryIds == 1..3

HnAnswers ==
    { [top |-> Failed, item |-> [s \in StoryIds |-> Failed]],
      [top |-> Top(<<1, 2, 3>>),
       item |-> <<StoryMistral, StoryAsk, StoryDeepseek>>],
      [top |-> Top(<<1, 2, 3>>),
       item |-> <<StoryMistral, Failed, StoryDeepseek>>] }

\* the clock reading of datetime.now().strftime("%d/%m/%Y %H:%M")
Clock ==
    { <<<<"0", 1>>, <<"6", 1>>, <<"/", 1>>, <<"1", 2>>, <<"/", 1>>,
        <<"2", 1>>, <<"0", 1>>, <<"2", 1>>, <<"6", 1>>, <<" ", 1>>,
        <<"0", 1>>, <<"6", 1>>, <<":", 1>>, <<"1", 1>>, <<"3", 1>>>> }

\* TELEGRAM_CHANNEL_ID of the environment
ChannelIds == { <<<<"@", 1>>, <<"a", 1>>, <<"i", 1>>, <<"n", 1>>, <<"e", 1>>,
                  <<"w", 1>>, <<"s", 1>>>> }

\* a run's world: every source answers; the feeds and pages not named here
\* answer with no entry
World(rss, page, hn, now) ==
    [rss |-> [u \in {RSS_FEEDS[k][1] : k \in 1..Len(RSS_FEEDS)} |->
                 IF u = OPENAI_FEED THEN rss ELSE Feed(<<>>)],
     github |-> [l \in {GITHUB_TOPICS[k][1] : k \in 1..Len(GITHUB_TOPICS)} |->
                 IF l = PYTHON THEN page ELSE Page(<<>>)],
     hn_top |-> hn.top,
     hn_item |-> hn.item,
     now |-> now]

\* two more worlds: a feed whose first item fills the first part of the
\* digest exactly, and a Hacker News story without a title
TunedWorlds ==
    { World(Feed(<<EntryTuned, EntryLlama>>), Failed,
            [top |-> Failed, item |-> [s \in StoryIds |-> Failed]], now) :
        now \in Clock }

UntitledWorlds ==
    { World(Feed(<<>>), Failed,
            [top |-> Top(<<1, 2, 3>>),
             item |-> <<StoryMistral, StoryUntitled, StoryDeepseek>>], now) :
        now \in Clock }

Worlds ==
    { World(rss, page, hn, now) :
        rss \in RssAnswers, page \in GithubAnswers, hn \in HnAnswers,
        now \in Clock }
      \cup TunedWorlds \cup UntitledWorlds

----------------------------------------------------------------------------
(* main.py: main_bot_run and send_digest_to_telegram, step by step *)

MaxRuns == 2

VARIABLES
    table,              \* db.py: the rows of table sent, in insertion order
    channel,            \* TELEGRAM_CHANNEL_ID
    run,                \* the number of runs started
    pc,                 \* where the current run stands
    world,              \* what the sources answer in the current run
    initial_sent_links, \* main_bot_run: the loaded links
    collected_news,     \* main_bot_run: collect_all_news's result
    min_score,          \* filter_and_rank's argument (default MIN_SCORE)
    max_items,          \* filter_and_rank's argument (default MAX_ITEMS)
    scored_news,        \* main_bot_run: filter_and_rank's result
    digest_messages,    \* send_digest_to_telegram: the parts
    i,                  \* send_digest_to_telegram: the part being sent (from 1)
    saved,              \* the commit loop: the items gone through
    calls,              \* the bot.send_message calls of the run: <<part, answer>>
    table_before,       \* table when send_digest_to_telegram was entered
    publish,            \* how send_digest_to_telegram ended
    exit_status         \* the status the process of the last run ended with

vars == <<table, channel, run, pc, world, initial_sent_links, collected_news,
          min_score, max_items, scored_news, digest_messages, i, saved, calls,
          table_before, publish, exit_status>>

NoWorld == World(Feed(<<>>), Page(<<>>),
                 [top |-> Top(<<>>), item |-> [s \in StoryIds |-> Failed]],
                 <<>>)

Init ==
    /\ table = <<>>
    /\ channel \in ChannelIds
    /\ run = 0
    /\ pc = "idle"
    /\ world = NoWorld
    /\ initial_sent_links = {}
    /\ collected_news = <<>>
    /\ min_score = MIN_SCORE
    /\ max_items = MAX_ITEMS
    /\ scored_news = <<>>
    /\ digest_messages = <<>>
    /\ i = 0
    /\ saved = 0
    /\ calls = <<>>
    /\ table_before = <<>>
    /\ publish = "none"
    /\ exit_status = -1

\* the process starts: initialize_db() and load_sent_links() (lines 286-289)
main_bot_run ==
    /\ pc = "idle"
    /\ run < MaxRuns
    /\ run' = run + 1
    /\ world' \in Worlds
    /\ initial_sent_links' = load_sent_links(table)
    /\ publish' = "none"
    /\ exit_status' = -1
    /\ pc' = "collect"
    /\ UNCHANGED <<min_score, max_items,
                   table, channel, collected_news, scored_news,
                   digest_messages, i, saved, calls, table_before>>

\* line 293
Collect ==
    /\ pc = "collect"
    /\ collected_news' = collect_all_news(world, initial_sent_links)
    /\ pc' = "rank"
    /\ UNCHANGED <<min_score, max_items,
                   table, channel, run, world, initial_sent_links, scored_news,
                   digest_messages, i, saved, calls, table_before, publish,
                   exit_status>>

\* line 297
Rank ==
    /\ pc = "rank"
    /\ scored_news' = filter_and_rank(collected_news, min_score, max_items)
    /\ pc' = "send"
    /\ UNCHANGED <<min_score, max_items,
                   table, channel, run, world, initial_sent_links,
                   collected_news, digest_messages, i, saved, calls,
                   table_before, publish, exit_status>>

\* send_digest_to_telegram, lines 220-222: nothing to send
SendNothing ==
    /\ pc = "send"
    /\ scored_news = <<>>
    /\ table_before' = table
    /\ publish' = "nothing"
    /\ pc' = "returned"
    /\ UNCHANGED <<min_score, max_items,
                   table, channel, run, world, initial_sent_links,
                   collected_news, scored_news, digest_messages, i, saved,
                   calls, exit_status>>

\* lines 224-227
FormatDigest ==
    /\ pc = "send"
    /\ scored_news # <<>>
    /\ table_before' = table
    /\ digest_messages' = format_digest_message(scored_news, world.now, channel)
    /\ i' = 1
    /\ pc' = "sending"
    /\ UNCHANGED <<min_score, max_items,
                   table, channel, run, world, initial_sent_links,
                   collected_news, scored_news, saved, calls, publish,
                   exit_status>>

\* the for loop of line 230 goes on to the next part, or ends
NextPart ==
    IF i < Len(digest_messages)
    THEN /\ i' = i + 1
         /\ pc' = "sending"
    ELSE /\ i' = i
         /\ pc' = "saving"

\* lines 232-240: the transport accepts part i
SendAccepted ==
    /\ pc = "sending"
    /\ calls' = Append(calls, <<i, "ok">>)
    /\ NextPart
    /\ UNCHANGED <<min_score, max_items,
                   table, channel, run, world, initial_sent_links,
                   collected_news, scored_news, digest_messages, saved,
                   table_before, publish, exit_status>>

\* lines 241-244: RetryAfter on part i, and the wait
SendRetryAfter ==
    /\ pc = "sending"
    /\ calls' = Append(calls, <<i, "RetryAfter">>)
    /\ pc' = "retry"
    /\ UNCHANGED <<min_score, max_items,
                   table, channel, run, world, initial_sent_links,
                   collected_news, scored_news, digest_messages, i, saved,
                   table_before, publish, exit_status>>

\* lines 245-252: the second send of part i is accepted
RetryAccepted ==
    /\ pc = "retry"
    /\ calls' = Append(calls, <<i, "ok">>)
    /\ NextPart
    /\ UNCHANGED <<min_score, max_items,
                   table, channel, run, world, initial_sent_links,
                   collected_news, scored_news, digest_messages, saved,
                   table_before, publish, exit_status>>

Errors == {"RetryAfter", "TimedOut", "Error"}

\* a retry handler that swallows the second failure and goes on with the
\* next part, against which the retry property is tried
RetryFailsGoesOn ==
    /\ pc = "retry"
    /\ \E answer \in Errors : calls' = Append(calls, <<i, answer>>)
    /\ NextPart
    /\ UNCHANGED <<min_score, max_items,
                   table, channel, run, world, initial_sent_links,
                   collected_news, scored_news, digest_messages, saved,
                   table_before, publish, exit_status>>

\* lines 253-255: the second send of part i raises; return
RetryFails ==
    /\ pc = "retry"
    /\ \E answer \in Errors : calls' = Append(calls, <<i, answer>>)
    /\ publish' = "error"
    /\ pc' = "returned"
    /\ UNCHANGED <<min_score, max_items,
                   table, channel, run, world, initial_sent_links,
                   collected_news, scored_news, digest_messages, i, saved,
                   table_before, exit_status>>

\* lines 256-258: TimedOut on part i; the loop goes on after the sleep
SendTimedOut ==
    /\ pc = "sending"
    /\ calls' = Append(calls, <<i, "TimedOut">>)
    /\ NextPart
    /\ UNCHANGED <<min_score, max_items,
                   table, channel, run, world, initial_sent_links,
                   collected_news, scored_news, digest_messages, saved,
                   table_before, publish, exit_status>>

\* an error handler that reports the failure and still falls through to the
\* commit loop, against which the no-write property is tried
SendFailsThenSaves ==
    /\ pc = "sending"
    /\ calls' = Append(calls, <<i, "Error">>)
    /\ publish' = "error"
    /\ pc' = "saving"
    /\ UNCHANGED <<min_score, max_items,
                   table, channel, run, world, initial_sent_links,
                   collected_news, scored_news, digest_messages, i, saved,
                   table_before, exit_status>>

\* lines 259-261: another exception on part i; return
SendFails ==
    /\ pc = "sending"
    /\ calls' = Append(calls, <<i, "Error">>)
    /\ publish' = "error"
    /\ pc' = "returned"
    /\ UNCHANGED <<min_score, max_items,
                   table, channel, run, world, initial_sent_links,
                   collected_news, scored_news, digest_messages, i, saved,
                   table_before, exit_status>>

\* lines 264-265: save_sent_link of the next item
SaveLink ==
    /\ pc = "saving"
    /\ saved < Len(scored_news)
    /\ table' = save_sent_link(table, scored_news[saved + 1][2])
    /\ saved' = saved + 1
    /\ UNCHANGED <<min_score, max_items,
                   channel, run, pc, world, initial_sent_links, collected_news,
                   scored_news, digest_messages, i, calls, table_before,
                   publish, exit_status>>

\* db.py lines 48-57: connect, execute or commit raises an sqlite3 error other
\* than IntegrityError; nothing up to asyncio.run catches it
SaveLinkRaises ==
    /\ pc = "saving"
    /\ saved < Len(scored_news)
    /\ publish' = "raised"
    /\ pc' = "raised"
    /\ UNCHANGED <<min_score, max_items,
                   table, channel, run, world, initial_sent_links,
                   collected_news, scored_news, digest_messages, i, saved,
                   calls, table_before, exit_status>>

\* lines 267-268: the commit loop is through
SaveDone ==
    /\ pc = "saving"
    /\ saved = Len(scored_news)
    /\ publish' = "sent"
    /\ pc' = "returned"
    /\ UNCHANGED <<min_score, max_items,
                   table, channel, run, world, initial_sent_links,
                   collected_news, scored_news, digest_messages, i, saved,
                   calls, table_before, exit_status>>

\* the process ends: asyncio.run returns after main_bot_run returned (status
\* 0) or raises what main_bot_run raised (status 1); what the run held in
\* memory is gone
Exit ==
    /\ pc \in {"returned", "raised"}
    /\ exit_status' = IF pc = "returned" THEN 0 ELSE 1
    /\ pc' = "idle"
    /\ world' = NoWorld
    /\ initial_sent_links' = {}
    /\ collected_news' = <<>>
    /\ scored_news' = <<>>
    /\ digest_messages' = <<>>
    /\ i' = 0
    /\ saved' = 0
    /\ calls' = <<>>
    /\ table_before' = <<>>
    /\ UNCHANGED <<min_score, max_items,
                   table, channel, run, publish>>

Next ==
    \/ main_bot_run
    \/ Collect
    \/ Rank
    \/ SendNothing
    \/ FormatDigest
    \/ SendAccepted
    \/ SendRetryAfter
    \/ RetryAccepted
    \/ RetryFails
    \/ SendTimedOut
    \/ SendFails
    \/ SaveLink
    \/ SaveLinkRaises
    \/ SaveDone
    \/ Exit

Spec == Init /\ [][Next]_vars

----------------------------------------------------------------------------
(* filter_and_rank on its own: the inputs are drawn from bounded sets and  *)
(* the one step applies the function to them.                               *)

RankMaxLen == 3

RankMaxScore == 6

RankMaxItems == 3

\* candidate items as the feed adapter builds them; their scores are
\* 9, 3, 5 and 5
RankPool ==
    get_rss_feed_items(Feed(<<EntryGpt, EntryNvidia, EntryLlama, EntryClaude>>),
                       RSS_FEEDS[5][2], {}, RSS_FEEDS[5][3])

RankInputs ==
    UNION { { [k \in 1..n |-> RankPool[f[k]]] : f \in [1..n -> 1..Len(RankPool)] } :
            n \in 0..RankMaxLen }

InitRank ==
    /\ table = <<>>
    /\ channel \in ChannelIds
    /\ run = 1
    /\ pc = "rank"
    /\ world = NoWorld
    /\ initial_sent_links = {}
    /\ collected_news \in RankInputs
    /\ min_score \in 0..RankMaxScore
    /\ max_items \in 0..RankMaxItems
    /\ scored_news = <<>>
    /\ digest_messages = <<>>
    /\ i = 0
    /\ saved = 0
    /\ calls = <<>>
    /\ table_before = <<>>
    /\ publish = "none"
    /\ exit_status = -1

SpecRank == InitRank /\ [][Rank]_vars

----------------------------------------------------------------------------
(* save_sent_link on its own: the commit loop over any list of items, the  *)
(* table holding any rows, so that the loop inserts links the table holds  *)
(* and inserts a link more than once.                                       *)

LedgerMaxRows == 2

LedgerMaxLen == 3

\* the links the rows and the items are drawn from
LedgerLinks == {LINK_A1, LINK_A2, LINK_A3}

\* the tables CREATE TABLE sent (link TEXT PRIMARY KEY) can hold: no link twice
LedgerTables ==
    UNION { { t \in [1..n -> LedgerLinks] :
                \A a, b \in 1..n : t[a] = t[b] => a = b } :
            n \in 0..LedgerMaxRows }

\* scored items as filter_and_rank builds them; their links are LINK_A1,
\* LINK_A2, LINK_A3 and LINK_A1
LedgerPool == filter_and_rank(RankPool, 0, Len(RankPool))

LedgerInputs ==
    UNION { { [k \in 1..n |-> LedgerPool[f[k]]] : f \in [1..n -> 1..Len(LedgerPool)] } :
            n \in 0..LedgerMaxLen }

InitLedger ==
    /\ table \in LedgerTables
    /\ channel \in ChannelIds
    /\ run = 1
    /\ pc = "saving"
    /\ world = NoWorld
    /\ initial_sent_links = {}
    /\ collected_news = <<>>
    /\ min_score = MIN_SCORE
    /\ max_items = MAX_ITEMS
    /\ scored_news \in LedgerInputs
    /\ digest_messages = <<>>
    /\ i = 0
    /\ saved = 0
    /\ calls = <<>>
    /\ table_before = table
    /\ publish = "none"
    /\ exit_status = -1

NextLedger ==
    \/ SaveLink
    \/ SaveDone

SpecLedger == InitLedger /\ [][NextLedger]_vars

----------------------------------------------------------------------------
(* The properties *)

\* C1: when send_digest_to_telegram gives up on a part (an error other than
\* RetryAfter and TimedOut on the first attempt, or any error on the retry),
\* the set of links in the table is the set it held when the publish attempt
\* began, whatever the number of parts and the position of the failing part.
C1_NoWriteOnFailure ==
    (pc \in {"saving", "returned"} /\ publish = "error")
        => load_sent_links(table) = load_sent_links(table_before)

\* a run of a two-part digest gave up on part 2, with links of an earlier
\* run in the table
C1_Witness ==
    /\ pc = "returned"
    /\ publish = "error"
    /\ Len(digest_messages) >= 2
    /\ calls # <<>>
    /\ calls[Len(calls)][1] = 2
    /\ table # <<>>

\* C2: in every run, if send_digest_to_telegram has inserted a link into the
\* table, then the transport accepted every part of the digest in that run,
\* a part whose send ended in TimedOut included.
C2_CommitOnlyOnFullSuccess ==
    (/\ pc \in {"saving", "returned", "raised"}
     /\ load_sent_links(table) # load_sent_links(table_before))
        => \A p \in 1..Len(digest_messages) :
              \E c \in 1..Len(calls) : calls[c] = <<p, "ok">>

\* C3: a link that is in the table when a run starts is in none of the
\* items the run collects and in none of the items of its digest, so a link
\* committed after a publish is not delivered by a later run.  (From rank to
\* the end of the sends the table is the one the run started with.)
C3_NeverRecollected ==
    pc \in {"rank", "send", "sending", "retry"}
        => /\ \A k \in 1..Len(collected_news) :
                 collected_news[k][2] \notin load_sent_links(table)
           /\ \A k \in 1..Len(scored_news) :
                 scored_news[k][2] \notin load_sent_links(table)

\* the second run collected from a feed that offers again the link the first
\* run committed
C3_Witness ==
    /\ pc = "rank"
    /\ run = 2
    /\ LINK_A1 \in load_sent_links(table)
    /\ world.rss[OPENAI_FEED].ok
    /\ \E k \in 1..Len(world.rss[OPENAI_FEED].entries) :
          /\ HasField(world.rss[OPENAI_FEED].entries[k], "link")
          /\ world.rss[OPENAI_FEED].entries[k].link = LINK_A1
    /\ collected_news # <<>>

\* C4: every string format_digest_message returns is at most
\* TELEGRAM_MAX_LENGTH characters long, whatever the lengths of the titles
\* and summaries, the parts that open with a continuation header included.
C4_PartsWithinLimit ==
    \A p \in 1..Len(digest_messages) :
       StrLen(digest_messages[p]) <= TELEGRAM_MAX_LENGTH

\* C5: for every list of items, every min_score and every max_items, the
\* list filter_and_rank returns has every item's score (the score of its
\* title and summary) at least min_score, has at most max_items items and
\* has its scores in non-increasing order.
C5_FilterRankInvariant ==
    pc = "send"
        => /\ \A k \in 1..Len(scored_news) :
                 /\ scored_news[k][5]
                      = score_item(scored_news[k][1], scored_news[k][3])
                 /\ scored_news[k][5] >= min_score
           /\ Len(scored_news) <= max_items
           /\ \A k \in 1..(Len(scored_news) - 1) :
                 scored_news[k][5] >= scored_news[k + 1][5]

\* a ranking that dropped an item below min_score, cut the list at max_items
\* and put a later, higher-scored item first
C5_Witness ==
    /\ pc = "send"
    /\ max_items = 2
    /\ Len(scored_news) = 2
    /\ Len(collected_news) = 3
    /\ score_item(collected_news[1][1], collected_news[1][3]) < min_score
    /\ score_item(collected_news[2][1], collected_news[2][3])
         < score_item(collected_news[3][1], collected_news[3][3])
    /\ scored_news[1][5] > scored_news[2][5]

\* C6: the list collect_all_news returns holds every link once, and holds
\* every link an adapter returned, whether the duplicates come from one
\* adapter or from several.
C6_DedupCorrect ==
    pc = "rank"
        => LET all_news_items == AllNewsItems(world, initial_sent_links)
           IN  /\ \A a, b \in 1..Len(collected_news) :
                     collected_news[a][2] = collected_news[b][2] => a = b
               /\ {all_news_items[k][2] : k \in 1..Len(all_news_items)}
                    = {collected_news[k][2] : k \in 1..Len(collected_news)}

\* a collection in which the feed returned one link twice and the feed and
\* Hacker News returned another one
C6_Witness ==
    /\ pc = "rank"
    /\ world.hn_top.ok
    /\ world.rss[OPENAI_FEED] = Feed(<<EntryGpt, EntryClaude, EntryNvidia>>)
    /\ Len(collected_news) + 2
         <= Len(AllNewsItems(world, initial_sent_links))

\* C7: a part the transport answers with RetryAfter is sent again exactly
\* once; when the second send is accepted the publish goes on with the next
\* part, and when it fails no later part is sent and the publish ends in
\* error.  calls[c] is a first send answered RetryAfter.
C7_RetryExactlyOnce ==
    \A c \in 1..Len(calls) :
       (calls[c][2] = "RetryAfter" /\ (c = 1 \/ calls[c - 1][1] # calls[c][1]))
          => /\ c = Len(calls) => pc = "retry"
             /\ c < Len(calls) =>
                  /\ calls[c + 1][1] = calls[c][1]
                  /\ calls[c + 1][2] # "ok" =>
                        /\ c + 1 = Len(calls)
                        /\ publish = "error"
                        /\ pc = "returned"
                  /\ (calls[c + 1][2] = "ok" /\ c + 1 = Len(calls)) =>
                        \/ pc = "sending" /\ i = calls[c][1] + 1
                        \/ /\ pc \in {"saving", "returned", "raised"}
                           /\ calls[c][1] = Len(digest_messages)
                  /\ c + 2 <= Len(calls) => calls[c + 2][1] = calls[c][1] + 1

\* part 1 was accepted on its second send, the publish went on with part 2,
\* and the second send of part 2 failed
C7_Witness ==
    /\ Len(calls) = 4
    /\ calls[1] = <<1, "RetryAfter">>
    /\ calls[2] = <<1, "ok">>
    /\ calls[3] = <<2, "RetryAfter">>
    /\ calls[4] = <<2, "TimedOut">>
    /\ Len(digest_messages) = 3
    /\ publish = "error"

\* C8: when the detail request of one story fails, get_hacker_news_items
\* still returns the items of the other stories among the first limit ids,
\* those fetched before the failing one and those after it.
C8_PerItemTolerance ==
    (pc = "rank" /\ world.hn_top.ok)
        => LET story_ids == PySlice(world.hn_top.ids, HN_LIMIT)
               items == get_hacker_news_items(world.hn_top, world.hn_item,
                                              initial_sent_links, HN_LIMIT)
           IN  \A s \in 1..Len(story_ids) :
                  world.hn_item[story_ids[s]].ok
                     => LET story_items ==
                               HnStoryItems(story_ids[s],
                                            world.hn_item[story_ids[s]].data,
                                            initial_sent_links)
                        IN  \A k \in 1..Len(story_items) :
                               \E j \in 1..Len(items) : items[j] = story_items[k]

\* C9: a storage failure while one link is inserted after the publish does
\* not abort the run, and every other link of the published digest is
\* inserted into the table.
C9_InsertFailureNotFatal ==
    (pc \in {"returned", "raised"} /\ publish \in {"sent", "raised"})
        => /\ pc # "raised"
           /\ \A k \in 1..Len(scored_news) :
                 \/ publish = "raised" /\ k = saved + 1
                 \/ scored_news[k][2] \in load_sent_links(table)

\* C10: the process of a run whose publish ended in a fatal error ends with
\* a failure status, and the process of a run whose publish completed ends
\* with the success status.
C10_ExitStatusReflectsPublish ==
    (pc = "idle" /\ run > 0)
        => /\ publish = "error" => exit_status # 0
           /\ publish = "sent" => exit_status = 0

\* C11: whatever the table holds and whatever the link, save_sent_link called
\* twice with the link leaves the table with the rows (their number and
\* their set) that one call leaves, the second call being swallowed and not
\* raised, and the table never holds a link twice.
C11_IdempotentInsert ==
    /\ \A a, b \in 1..Len(table) : table[a] = table[b] => a = b
    /\ \A link \in LedgerLinks :
          LET once == save_sent_link(table, link)
              twice == save_sent_link(once, link)
          IN  /\ Len(twice) = Len(once)
              /\ load_sent_links(twice) = load_sent_links(once)
              /\ link \in load_sent_links(once)
    /\ pc = "saving" =>
          /\ load_sent_links(table)
               = load_sent_links(table_before)
                   \cup {scored_news[k][2] : k \in 1..saved}
          /\ Cardinality(load_sent_links(table)) = Len(table)

\* the commit loop inserted one link twice in a row into an empty table and
\* goes on
C11_Witness ==
    /\ pc = "saving"
    /\ table_before = <<>>
    /\ saved = 2
    /\ Len(scored_news) = 3
    /\ scored_news[1][2] = scored_news[2][2]
    /\ table = <<scored_news[1][2]>>

\* the links of a list of items
LinksOf(items) == [k \in 1..Len(items) |-> items[k][2]]

\* of a list of links, <<>> standing for an entry without a link, those that
\* are not empty and not in sent_links, in their order
FreshLinks(links, sent_links) ==
    SelectSeq(links, LAMBDA l : l # <<>> /\ l \notin sent_links)

\* the links of the first limit entries of a parsed feed
RssLinks(feed, limit) ==
    LET entries == PySlice(feed.entries, limit)
    IN  [k \in 1..Len(entries) |->
           IF HasField(entries[k], "link") THEN entries[k].link ELSE <<>>]

\* the links of the first limit articles of a trending page
GithubLinks(page, limit) ==
    LET articles == PySlice(page.articles, limit)
    IN  [k \in 1..Len(articles) |->
           IF HasField(articles[k], "name") /\ HasField(articles[k], "href")
           THEN Cat(GITHUB_URL, articles[k].href) ELSE <<>>]

\* the links of the first limit stories whose detail request was answered
HnLinks(top, details, limit) ==
    LET story_ids == SelectSeq(PySlice(top.ids, limit),
                               LAMBDA story_id : details[story_id].ok)
    IN  [k \in 1..Len(story_ids) |->
           IF HasField(details[story_ids[k]].data, "url")
           THEN details[story_ids[k]].data.url
           ELSE Cat(HN_ITEM_URL, Digits(story_ids[k]))]

\* C12: for each of the three adapters and every set of known links, the
\* links of the returned items are the non-empty links outside the set of
\* the first limit entries, every one of them and in source order; so no
\* returned item has an empty link or a link of the set.
C12_AdapterLedgerFiltering ==
    pc = "rank"
        => /\ \A f \in 1..Len(RSS_FEEDS) :
                 world.rss[RSS_FEEDS[f][1]].ok
                    => LinksOf(get_rss_feed_items(world.rss[RSS_FEEDS[f][1]],
                                                  RSS_FEEDS[f][2],
                                                  initial_sent_links,
                                                  RSS_FEEDS[f][3]))
                         = FreshLinks(RssLinks(world.rss[RSS_FEEDS[f][1]],
                                               RSS_FEEDS[f][3]),
                                      initial_sent_links)
           /\ \A t \in 1..Len(GITHUB_TOPICS) :
                 world.github[GITHUB_TOPICS[t][1]].ok
                    => LinksOf(get_github_trending_repos(
                                  world.github[GITHUB_TOPICS[t][1]],
                                  GITHUB_TOPICS[t][1], initial_sent_links,
                                  GITHUB_TOPICS[t][2]))
                         = FreshLinks(GithubLinks(world.github[GITHUB_TOPICS[t][1]],
                                                  GITHUB_TOPICS[t][2]),
                                      initial_sent_links)
           /\ world.hn_top.ok
                 => LinksOf(get_hacker_news_items(world.hn_top, world.hn_item,
                                                  initial_sent_links, HN_LIMIT))
                      = FreshLinks(HnLinks(world.hn_top, world.hn_item, HN_LIMIT),
                                   initial_sent_links)

\* C13: of the collected items that share a link, collect_all_news keeps the
\* title, summary and source name of the last one in the order in which the
\* adapters' results are concatenated, at the place where the link was first
\* seen; the kept items stand in the order in which their links were first
\* seen.
C13_CollisionRule ==
    pc = "rank"
        => LET all_news_items == AllNewsItems(world, initial_sent_links)
               First(link) == CHOOSE p \in 1..Len(all_news_items) :
                                 /\ all_news_items[p][2] = link
                                 /\ \A q \in 1..(p - 1) :
                                       all_news_items[q][2] # link
               Last(link) == CHOOSE p \in 1..Len(all_news_items) :
                                /\ all_news_items[p][2] = link
                                /\ \A q \in (p + 1)..Len(all_news_items) :
                                      all_news_items[q][2] # link
           IN  /\ \A k \in 1..Len(collected_news) :
                     /\ \E p \in 1..Len(all_news_items) :
                           all_news_items[p][2] = collected_news[k][2]
                     /\ collected_news[k]
                          = all_news_items[Last(collected_news[k][2])]
               /\ \A a, b \in 1..Len(collected_news) :
                     a < b => First(collected_news[a][2])
                                < First(collected_news[b][2])

\* the feed returned LINK_A1 with two titles and then LINK_A2, which Hacker
\* News returned too: the first kept item carries the second title, the
\* second one is the Hacker News item, and items with other links follow
C13_Witness ==
    /\ pc = "rank"
    /\ world.rss[OPENAI_FEED] = Feed(<<EntryGpt, EntryClaude, EntryNvidia>>)
    /\ Len(collected_news) >= 3
    /\ collected_news[1][2] = LINK_A1
    /\ collected_news[1][1]
         = CatAll(<<RSS_FEEDS[4][2], COLON_SPACE, EntryClaude.title>>)
    /\ collected_news[2][2] = LINK_A2
    /\ collected_news[2][4] = HACKER_NEWS

\* C14: format_digest_message puts every scored item in one category (the
\* GitHub section when its source name contains "GitHub Trending", whatever
\* its score; else the big releases when its score is at least 5; else the
\* flash news), renders the sections in the order big releases, GitHub,
\* flash news, each under its heading, and keeps the rank order within a
\* section, so that every item appears once.  Read off the lines of the
\* digest: the section headings and the links, in the order of the lines.
C14_DigestGrouping ==
    pc = "sending"
        => LET lines == DigestLines(scored_news, world.now, channel)
               Trending(item) == Contains(GITHUB_TRENDING, item[4])
               Big(item) == ~Trending(item) /\ item[5] >= 5
               Flash(item) == ~Trending(item) /\ item[5] < 5
               big == SelectSeq(scored_news, Big)
               trending == SelectSeq(scored_news, Trending)
               flash == SelectSeq(scored_news, Flash)
               Headings == {BIG_RELEASES_HEADING, GITHUB_HEADING, FLASH_HEADING}
               HasLink(line, item) ==
                   Contains(Expand(item[2], StrLen(item[2])), line)
               Marked(line) ==
                   line \in Headings
                     \/ \E k \in 1..Len(scored_news) : HasLink(line, scored_news[k])
               marked == SelectSeq(lines, Marked)
               Token(line) ==
                   IF line \in Headings THEN line
                   ELSE scored_news[CHOOSE k \in 1..Len(scored_news) :
                                       HasLink(line, scored_news[k])][2]
           IN  [p \in 1..Len(marked) |-> Token(marked[p])]
                 = (IF big # <<>>
                    THEN <<BIG_RELEASES_HEADING>> \o LinksOf(big) ELSE <<>>)
                   \o (IF trending # <<>>
                       THEN <<GITHUB_HEADING>> \o LinksOf(trending) ELSE <<>>)
                   \o (IF flash # <<>>
                       THEN <<FLASH_HEADING>> \o LinksOf(flash) ELSE <<>>)

\* a digest whose first-ranked item is a GitHub Trending one with a score of
\* 5 or more, ranked before two big releases and a flash item
C14_Witness ==
    /\ pc = "sending"
    /\ Len(scored_news) = 4
    /\ Contains(GITHUB_TRENDING, scored_news[1][4])
    /\ scored_news[1][5] >= 5
    /\ \A k \in 2..4 : ~Contains(GITHUB_TRENDING, scored_news[k][4])
    /\ scored_news[2][5] >= 5
    /\ scored_news[3][5] >= 5
    /\ scored_news[4][5] < 5

\* C15: when the digest is split, the parts, their continuation headers
\* taken off, hold every rendered line of the digest once and in the
\* original order (the blank separator lines, which strip() drops at the
\* ends of a part, set aside), and no part is empty or is a continuation
\* header alone.
C15_SplitLosesNothing ==
    (/\ pc = "sending"
     /\ StrLen(Join(NEWLINE, DigestLines(scored_news, world.now, channel)))
          > TELEGRAM_MAX_LENGTH)
        => LET lines == DigestLines(scored_news, world.now, channel)
               \* text.split("\n")
               TextLines(text) ==
                   LET r == FoldLeft(LAMBDA st, r1 :
                                       IF r1[1] = "\n"
                                       THEN [done |-> st.done \o <<st.cur>>
                                                        \o [k \in 1..(r1[2] - 1) |-> <<>>],
                                             cur |-> <<>>]
                                       ELSE [done |-> st.done,
                                             cur |-> Append(st.cur, r1)],
                                     [done |-> <<>>, cur |-> <<>>],
                                     text, 1, Len(text))
                   IN  Append(r.done, r.cur)
               NonBlank(ls) == SelectSeq(ls, LAMBDA l : l # <<>>)
               \* the lines of part p without its continuation header
               Body(p) ==
                   LET ls == TextLines(digest_messages[p])
                   IN  IF p > 1 /\ ls # <<>> /\ ls[1] = Strip(ContinuationHeader(p - 1))
                       THEN NonBlank(Tail(ls))
                       ELSE NonBlank(ls)
               parts == [p \in 1..Len(digest_messages) |-> p]
           IN  /\ FlatMap(Body, parts, 1, Len(parts)) = NonBlank(lines)
               /\ \A p \in 1..Len(digest_messages) :
                     /\ digest_messages[p] # <<>>
                     /\ Body(p) # <<>>

====
